---- MODULE Spec2Model ----
(***************************************************************************)
(* Model of tallypi's tally binding engine: one BaseOutput bound to a set  *)
(* of BaseInput objects under asyncio's cooperative scheduling.            *)
(*                                                                         *)
(* A coroutine call is a task; a step of the model is what a task does     *)
(* between two suspension points of the event loop.                        *)
(***************************************************************************)
EXTENDS Integers, Sequences, FiniteSets, TLC

\* ------------------------------------------------------------------ bounds
MaxWaiters == 2
\* callbacks dispatched by the Manager's containers and not yet run
MaxEvents == 3
\* members of the `tallies` list of a MultiTallyConfig
MaxTallies == 2

\* --------------------------------------------------------------- constants
None == -1
Broadcast == 65535

OFF == 0
RED == 1
GREEN == 2
AMBER == 3

no_tally == 0
rh_tally == 1
txt_tally == 2
lh_tally == 4
all_tally == 7

Inputs == {"in1", "in2"}
Keys == {<<1, 1>>, <<2, 1>>}
Colors == {OFF, RED, GREEN, AMBER}
NoInput == "none"
NoKey == <<None, None>>
AllProps == {"rh_tally", "txt_tally", "lh_tally"}
\* what the modelled UMD source sends
UmdProps == {"rh_tally", "txt_tally"}
UmdColors == {OFF, RED, AMBER}
\* the tally types get_merged_tally is asked about
MergeTypes == {rh_tally, txt_tally, rh_tally + txt_tally}

\* --------------------------------------------------- TallyType / TallyColor
Bit(a, i) == (a \div (2 ^ i)) % 2

\* variant: the union of the bits
BitAnd_union(a, b) ==
    (IF Bit(a, 0) + Bit(b, 0) > 0 THEN 1 ELSE 0)
    + (IF Bit(a, 1) + Bit(b, 1) > 0 THEN 2 ELSE 0)
    + (IF Bit(a, 2) + Bit(b, 2) > 0 THEN 4 ELSE 0)

BitAnd(a, b) ==
    Bit(a, 0) * Bit(b, 0) + 2 * (Bit(a, 1) * Bit(b, 1)) + 4 * (Bit(a, 2) * Bit(b, 2))

BitOr(a, b) == a + b - BitAnd(a, b)

\* a tslumd Tally holds one colour per tally type
NewTally == [rh_tally |-> OFF, txt_tally |-> OFF, lh_tally |-> OFF]

\* tally[ttype]: the colours of the members of ttype merged
TallyGetItem(tally, ttype) ==
    BitOr(BitOr(IF Bit(ttype, 0) = 1 THEN tally.rh_tally ELSE OFF,
                IF Bit(ttype, 1) = 1 THEN tally.txt_tally ELSE OFF),
          IF Bit(ttype, 2) = 1 THEN tally.lh_tally ELSE OFF)

\* ------------------------------------------------------------ tally configs
SingleTallyConfig(scr, ix, tt, mask) ==
    [kind |-> "single", screen_index |-> scr, tally_index |-> ix,
     tally_type |-> tt, color_mask |-> mask, allow_all |-> FALSE]

MultiTallyConfig(scr, all) ==
    [kind |-> "multi", screen_index |-> scr, tally_index |-> None,
     tally_type |-> all_tally, color_mask |-> AMBER, allow_all |-> all,
     tallies |-> << >>]

\* MultiTallyConfig(tallies=ts): allow_all is False
MultiTallyConfigOf(ts) == [MultiTallyConfig(None, FALSE) EXCEPT !.tallies = ts]

NoMatch == [kind |-> "nomatch", screen_index |-> None, tally_index |-> None,
            tally_type |-> no_tally, color_mask |-> OFF, allow_all |-> FALSE]

normalize_screen(x) == IF x = Broadcast THEN None ELSE x

normalize_tally_index(x) == IF x = Broadcast THEN None ELSE x

is_broadcast_screen(c) ==
    IF c.kind = "multi" /\ ~c.allow_all THEN TRUE
    ELSE c.screen_index \in {None, Broadcast}

is_broadcast_tally(c) == c.tally_index \in {None, Broadcast}

\* variant: every config has the broadcast key
tally_key_broadcast(c) == <<Broadcast, Broadcast>>

tally_key(c) ==
    <<IF c.screen_index = None THEN Broadcast ELSE c.screen_index,
      IF c.tally_index = None THEN Broadcast ELSE c.tally_index>>

\* SingleTallyConfig.matches_screen against the screen index of a tally key
matches_screen(c, scr) ==
    IF is_broadcast_screen(c) THEN TRUE
    ELSE LET self_screen == normalize_screen(c.screen_index)
             oth_screen == normalize_screen(scr)
         IN IF self_screen # None /\ oth_screen # None
            THEN self_screen = oth_screen
            ELSE TRUE

\* SingleTallyConfig.matches(key, tally_type, return_matched=True):
\* the matched config, or NoMatch
SingleMatches(c, key, tt) ==
    IF ~matches_screen(c, key[1]) THEN NoMatch
    ELSE IF BitAnd(c.tally_type, tt) = no_tally THEN NoMatch
    ELSE LET self_ix == IF is_broadcast_tally(c) THEN None
                        ELSE normalize_tally_index(c.tally_index)
             oth_ix == normalize_tally_index(key[2])
         IN IF self_ix = None \/ oth_ix = None \/ self_ix = oth_ix
            THEN c ELSE NoMatch

\* the first member of tallies from position n on that matches, or NoMatch
RECURSIVE MatchFrom(_, _, _, _)
MatchFrom(ts, n, key, tt) ==
    IF n > Len(ts) THEN NoMatch
    ELSE IF SingleMatches(ts[n], key, tt) # NoMatch THEN SingleMatches(ts[n], key, tt)
    ELSE MatchFrom(ts, n + 1, key, tt)

\* MultiTallyConfig.matches(key, tally_type, return_matched=True)
MultiMatches(c, key, tt) ==
    IF c.allow_all
    THEN IF tt # no_tally /\ matches_screen(c, key[1])
         THEN SingleTallyConfig(key[1], key[2], tt, AMBER)
         ELSE NoMatch
    ELSE MatchFrom(c.tallies, 1, key, tt)

ConfigMatches(c, key, tt) ==
    IF c.kind = "single" THEN SingleMatches(c, key, tt) ELSE MultiMatches(c, key, tt)

\* ---- arguments of the matching methods: an int, a Tally (or its key), a
\* SingleTallyConfig or a MultiTallyConfig
IntArg(n) ==
    [kind |-> "int", screen_index |-> n, tally_index |-> n,
     tally_type |-> no_tally, color_mask |-> OFF, allow_all |-> FALSE]

\* a Tally of screen scr with index ix; 0xFFFF is the broadcast screen or tally
TallyObj(scr, ix) ==
    [kind |-> "tally", screen_index |-> scr, tally_index |-> ix,
     tally_type |-> no_tally, color_mask |-> OFF, allow_all |-> FALSE]

\* variant: the broadcast address is kept as a number
normalize_screen_obj_raw(obj) == obj.screen_index

\* normalize_screen on any of its argument types
normalize_screen_obj(obj) ==
    IF obj.kind = "int" THEN normalize_screen(obj.screen_index)
    ELSE IF obj.kind = "tally"
    THEN IF obj.screen_index = Broadcast THEN None ELSE obj.screen_index
    ELSE IF is_broadcast_screen(obj) THEN None ELSE obj.screen_index

\* variant: the broadcast address is kept as a number
normalize_tally_index_obj_raw(obj) == obj.tally_index

\* normalize_tally_index on any of its argument types
normalize_tally_index_obj(obj) ==
    IF obj.kind = "int" THEN normalize_tally_index(obj.tally_index)
    ELSE IF obj.kind = "tally"
    THEN IF obj.tally_index = Broadcast THEN None ELSE obj.tally_index
    ELSE IF is_broadcast_tally(obj) THEN None ELSE obj.tally_index

\* variant: screens match only when they are equal
Single_matches_screen_equal(c, other) ==
    normalize_screen_obj(c) = normalize_screen_obj(other)

\* SingleTallyConfig.matches_screen(other)
Single_matches_screen(c, other) ==
    IF is_broadcast_screen(c) THEN TRUE
    ELSE LET self_screen == normalize_screen_obj(c)
             oth_screen == normalize_screen_obj(other)
         IN IF self_screen # None /\ oth_screen # None
            THEN self_screen = oth_screen
            ELSE TRUE

\* variant: a MultiTallyConfig matches every screen
Multi_matches_screen_any(c, other) == TRUE

\* MultiTallyConfig.matches_screen(other)
Multi_matches_screen(c, other) ==
    IF other.kind = "single" THEN Single_matches_screen(other, c)
    ELSE LET self_screen == normalize_screen_obj(c)
             oth_screen == normalize_screen_obj(other)
         IN IF self_screen # None /\ oth_screen # None
            THEN self_screen = oth_screen
            ELSE TRUE

\* SingleTallyConfig.matches(other, tally_type) as a bool
Single_matches(c, other, tt) ==
    IF ~Single_matches_screen(c, other) THEN FALSE
    ELSE IF other.kind = "single" /\ BitAnd(c.tally_type, other.tally_type) = no_tally
    THEN FALSE
    ELSE IF BitAnd(c.tally_type, tt) = no_tally THEN FALSE
    ELSE LET self_ix == normalize_tally_index_obj(c)
             oth_ix == normalize_tally_index_obj(other)
         IN self_ix = None \/ oth_ix = None \/ self_ix = oth_ix

\* the first member of tallies that matches, as its position, or 0
RECURSIVE ScanFrom(_, _, _, _)
ScanFrom(ts, n, other, tt) ==
    IF n > Len(ts) THEN 0
    ELSE IF Single_matches(ts[n], other, tt) THEN n
    ELSE ScanFrom(ts, n + 1, other, tt)

\* MultiTallyConfig.contains(other, tally_type) as a bool, tallies being the
\* list of the config
Multi_contains(c, ts, other, tt) ==
    IF c.allow_all
    THEN /\ Multi_matches_screen(c, other)
         /\ tt # no_tally
         /\ (other.kind = "single" => other.tally_type # no_tally)
    ELSE ScanFrom(ts, 1, other, tt) # 0

\* BaseIO.tally_matches
tally_matches(c, key, tt) == ConfigMatches(c, key, tt) # NoMatch

\* single-tally inputs as in test_color_merge, on one tally or on two, or a
\* multi-tally input restricted to one screen next to a single-tally one
MergeInConfigs ==
    { [in1 |-> SingleTallyConfig(1, 1, rh_tally, RED),
       in2 |-> SingleTallyConfig(1, 1, rh_tally, GREEN)],
      [in1 |-> SingleTallyConfig(1, 1, rh_tally, RED),
       in2 |-> SingleTallyConfig(2, 1, txt_tally, AMBER)],
      [in1 |-> MultiTallyConfig(1, TRUE),
       in2 |-> SingleTallyConfig(1, 1, rh_tally, GREEN)] }

OutConfigs ==
    { SingleTallyConfig(1, 1, rh_tally, AMBER),
      MultiTallyConfig(None, TRUE) }

\* the inputs' configs: two single-tally inputs masked RED and GREEN, or a
\* multi-tally input next to a single-tally one
InConfigs ==
    { [in1 |-> SingleTallyConfig(1, 1, rh_tally, RED),
       in2 |-> SingleTallyConfig(1, 1, rh_tally, GREEN)],
      [in1 |-> MultiTallyConfig(None, TRUE),
       in2 |-> SingleTallyConfig(1, 1, rh_tally, GREEN)] }

\* ------------------------------------------------------------------- state
VARIABLES
    config,                  \* the Output's config
    in_config,               \* each Input's config
    tallies,                 \* each Input's Tally objects by TallyKey
    bound_inputs,            \* the keys of BaseOutput.bound_inputs
    bound_input_tally_keys,  \* BaseOutput.bound_input_tally_keys (a dict)
    holder,                  \* the bind_to_input suspended in gather under _input_lock
    waiters,                 \* coroutines queued on _input_lock, in order
    added_q,                 \* on_tally_added callbacks dispatched, not yet started
    subscribed,              \* Inputs whose on_tally_added is bound to the Output
    tally_subs,              \* <<input, key>> whose on_update is bound to the Output
    pushes,                  \* on_receiver_tally_change calls made by bind_to_tally
    received,                \* the last on_receiver_tally_change call
    last_op,                 \* the last call that returned or raised
    merged,                  \* the get_merged_tally call just made and its result
    rt,                      \* observer of a bind / unbind / bind round trip
    led,                     \* a BaseLED output: its LED and the on_update calls due
    mgr,                     \* a Manager with its containers and config store
    cq,                      \* a tally config, an argument and what the queries returned
    mtc,                     \* a MultiTallyConfig with its tallies and its memo
    ser,                     \* a value, its serialized form and what reading it back gave
    reg,                     \* the registry of BaseIO classes and a container loading records
    bio                      \* one BaseIO object: its id, running and device

vars == <<config, in_config, tallies, bound_inputs, bound_input_tally_keys,
          holder, waiters, added_q, subscribed, tally_subs, pushes, received,
          last_op, merged, rt, led, mgr, cq, mtc, ser, reg, bio>>

\* the state of the objects the binding operations do not touch
\* serialization, the class registry and a single BaseIO object
ext == <<ser, reg, bio>>

aux == <<led, mgr, cq, mtc, ext>>

\* Python dicts: functions on a finite set of keys
EmptyDict == [x \in {} |-> {}]

DictGet(d, k, default) == IF k \in DOMAIN d THEN d[k] ELSE default

DictPut(d, k, v) == [x \in (DOMAIN d) \cup {k} |-> IF x = k THEN v ELSE d[x]]

NoHolder == [inp |-> NoInput, pend |-> {}]

NoOp == [kind |-> "none", inp |-> NoInput, res |-> "none", was_bound |-> FALSE]

NoReceived == [inp |-> NoInput, key |-> NoKey, props |-> {}, ids |-> {}]

NoMerged == [key |-> NoKey, type |-> no_tally, color |-> OFF, res |-> "none"]

NoRoundTrip == [phase |-> "setup", inp |-> NoInput, bound |-> {}, keys |-> EmptyDict]

Coro(kind, i, key) == [kind |-> kind, inp |-> i, key |-> key]

\* nothing is due for the LED, which is off as _create_led left it
NoLed == [color |-> OFF, pending |-> {}]

\* an object of a container before any container operation is suspended
NoMgrOp == [kind |-> "none", cont |-> "none", key |-> None, obj |-> "none"]

NoObjects == [inputs |-> << >>, outputs |-> << >>]

\* no Manager has been constructed
NoManager ==
    [readonly |-> FALSE, asserts |-> TRUE, running |-> FALSE, config_read |-> TRUE,
     objects |-> NoObjects, bound |-> << >>, events |-> << >>, store |-> NoObjects,
     evt |-> FALSE, override |-> FALSE, pc |-> "none", changed |-> FALSE,
     op |-> NoMgrOp, last |-> "none"]

NoProps ==
    [screen |-> None, index |-> None, key |-> NoKey,
     is_broadcast_screen |-> FALSE, is_broadcast_tally |-> FALSE]

\* no matching method has been called
NoQuery ==
    [phase |-> "none", c |-> NoMatch, o |-> NoMatch, tallies |-> << >>,
     tt |-> no_tally, res |-> FALSE, props |-> NoProps]

\* nothing has been serialized
NoSer == [phase |-> "none", value |-> << >>, data |-> << >>, back |-> << >>]

\* nothing declared: no class, an empty registry
NoDecl == [res |-> "none", ns |-> << >>, own |-> << >>, final |-> FALSE]

NoReg == [phase |-> "none", classes |-> EmptyDict, map |-> EmptyDict, last |-> NoDecl]

NoObj == [phase |-> "none"]

\* nothing is serialized, registered or opened
ExtIdle == ser = NoSer /\ reg = NoReg /\ bio = NoObj

\* no MultiTallyConfig with a list of tallies has been built
NoMulti ==
    [phase |-> "none", tallies |-> << >>, memo |-> EmptyDict,
     o |-> NoMatch, tt |-> no_tally, res |-> NoMatch]

\* the state after construction of the Output and the Inputs
CoreInit(confs) ==
    /\ config \in OutConfigs
    /\ in_config \in confs
    /\ tallies = [i \in Inputs |-> EmptyDict]
    /\ bound_inputs = {}
    /\ bound_input_tally_keys = EmptyDict
    /\ holder = NoHolder
    /\ waiters = << >>
    /\ added_q = {}
    /\ subscribed = {}
    /\ tally_subs = {}
    /\ pushes = [p \in Inputs \X Keys |-> 0]
    /\ received = NoReceived
    /\ last_op = NoOp
    /\ merged = NoMerged
    /\ rt = NoRoundTrip

InitWith(confs) ==
    /\ CoreInit(confs)
    /\ led = NoLed
    /\ mgr = NoManager
    /\ cq = NoQuery
    /\ mtc = NoMulti
    /\ ExtIdle

Init == InitWith(InConfigs)

InitMerge == InitWith(MergeInConfigs)

\* ------------------------------------------------------------ pure queries
\* BaseInput.get_tally: the input's Tally under the key, if any
has_tally(i, key) == key \in DOMAIN tallies[i]

\* BaseInput.get_tally_color; None when the input does not contribute
get_tally_color(i, key, tt) ==
    LET tally_conf == ConfigMatches(in_config[i], key, tt)
    IN IF tally_conf = NoMatch THEN None
       ELSE IF ~has_tally(i, tally_key(tally_conf)) THEN None
       ELSE LET ttype == BitAnd(tally_conf.tally_type, tt)
            IN IF ttype = no_tally THEN None
               ELSE BitAnd(TallyGetItem(tallies[i][tally_key(tally_conf)], ttype),
                           tally_conf.color_mask)

\* BaseOutput.get_all_input_tallies: the inputs it yields for the key
input_ids(key) == DictGet(bound_input_tally_keys, key, {})

\* variant: every bound input is asked, whether or not its tally was bound
get_all_input_tallies_all(key) == {i \in bound_inputs : has_tally(i, key)}

get_all_input_tallies(key) == {i \in input_ids(key) : has_tally(i, key)}

\* self.bound_inputs[key] of get_all_input_tallies fails
get_all_input_tallies_raises(key) == \E i \in input_ids(key) : i \notin bound_inputs

RECURSIVE MergeAll(_, _, _)
MergeAll(S, key, tt) ==
    IF S = {} THEN OFF
    ELSE LET i == CHOOSE x \in S : TRUE
             color == get_tally_color(i, key, tt)
             rest == MergeAll(S \ {i}, key, tt)
         IN IF color # None THEN BitOr(rest, color) ELSE rest

\* BaseOutput.get_merged_tally for a TallyKey argument
get_merged_tally(key, tt) == MergeAll(get_all_input_tallies(key), key, tt)

\* variant: setdefault() instead of get() inserts the key
KeysAfterGet_setdefault(key) ==
    DictPut(bound_input_tally_keys, key, DictGet(bound_input_tally_keys, key, {}))

\* the registry as get_all_input_tallies leaves it (dict.get does not insert)
KeysAfterGet(key) == bound_input_tally_keys

\* ------------------------------------------------------------ _input_lock
locked == holder # NoHolder

\* variant: acquire looks at the waiters only, not at the holder
LockFree_unheld == waiters = << >>

\* asyncio.Lock.acquire takes the lock at once only when nobody waits for it
LockFree == ~locked /\ waiters = << >>

\* the coroutine suspends in acquire()
Enqueue(kind, i, key) ==
    /\ Len(waiters) < MaxWaiters
    /\ waiters' = Append(waiters, Coro(kind, i, key))

\* release() has woken the first waiter
Woken(kind) == ~locked /\ waiters # << >> /\ Head(waiters).kind = kind

\* a coroutine returns or raises
Finish(kind, i, res, was_bound) ==
    last_op' = [kind |-> kind, inp |-> i, res |-> res, was_bound |-> was_bound]

\* ------------------------------------------------------------ bind_to_tally
\* variant: on_receiver_tally_change is called before the input is recorded
bind_to_tally_notify_first(i, key) ==
    LET old == DictGet(bound_input_tally_keys, key, {})
    IN /\ bound_input_tally_keys' = DictPut(bound_input_tally_keys, key, old \cup {i})
       /\ tally_subs' = tally_subs \cup {<<i, key>>}
       /\ pushes' = [pushes EXCEPT ![<<i, key>>] = @ + 1]
       /\ received' = [inp |-> i, key |-> key, props |-> AllProps, ids |-> old]

\* BaseOutput.bind_to_tally: record the input under the tally key, subscribe
\* to the tally, then call on_receiver_tally_change with all three props
bind_to_tally(i, key) ==
    LET ids == DictGet(bound_input_tally_keys, key, {}) \cup {i}
    IN /\ bound_input_tally_keys' = DictPut(bound_input_tally_keys, key, ids)
       /\ tally_subs' = tally_subs \cup {<<i, key>>}
       /\ pushes' = [pushes EXCEPT ![<<i, key>>] = @ + 1]
       /\ received' = [inp |-> i, key |-> key, props |-> AllProps, ids |-> ids]

\* ------------------------------------------------------------ bind_to_input
\* variant: bind_to_input without its early return
AlreadyBound_never(i) == FALSE

\* the early return of bind_to_input
AlreadyBound(i) == i \in bound_inputs

MatchingTallies(i) == {k \in DOMAIN tallies[i] : tally_matches(config, k, all_tally)}

\* the body of bind_to_input under _input_lock, up to its first suspension
BindBody(i) ==
    /\ IF i \in bound_inputs
       THEN \* assert inp.id not in self.bound_inputs
            /\ Finish("bind", i, "AssertionError", TRUE)
            /\ UNCHANGED <<bound_inputs, holder, subscribed>>
       ELSE /\ bound_inputs' = bound_inputs \cup {i}
            /\ IF MatchingTallies(i) = {}
               THEN /\ subscribed' = subscribed \cup {i}
                    /\ Finish("bind", i, "ok", FALSE)
                    /\ UNCHANGED holder
               ELSE /\ holder' = [inp |-> i, pend |-> MatchingTallies(i)]
                    /\ UNCHANGED <<subscribed, last_op>>
    /\ UNCHANGED <<bound_input_tally_keys, tally_subs, pushes, received>>

\* bind_to_input(i) is called and runs up to its first suspension
BindCall(i) ==
    /\ IF AlreadyBound(i)
       THEN /\ Finish("bind", i, "noop", TRUE)
            /\ UNCHANGED <<bound_inputs, bound_input_tally_keys, holder, waiters,
                           subscribed, tally_subs, pushes, received>>
       ELSE IF LockFree
       THEN BindBody(i) /\ UNCHANGED waiters
       ELSE /\ Enqueue("bind", i, NoKey)
            /\ UNCHANGED <<bound_inputs, bound_input_tally_keys, holder,
                           subscribed, tally_subs, pushes, received, last_op>>
    /\ UNCHANGED <<config, in_config, tallies, added_q, merged>>

BindResume ==
    /\ Woken("bind")
    /\ waiters' = Tail(waiters)
    /\ BindBody(Head(waiters).inp)
    /\ UNCHANGED <<config, in_config, tallies, added_q, merged, rt, aux>>

\* one of the bind_to_tally coroutines gathered by bind_to_input runs
GatherStep(key) ==
    /\ locked
    /\ key \in holder.pend
    /\ bind_to_tally(holder.inp, key)
    /\ holder' = [holder EXCEPT !.pend = @ \ {key}]
    /\ UNCHANGED <<config, in_config, tallies, bound_inputs, waiters, added_q,
                   subscribed, last_op, merged>>

\* variant: bind_to_input returns without releasing the lock
GatherDone_keeps_lock ==
    /\ locked
    /\ holder.pend = {}
    /\ subscribed' = subscribed \cup {holder.inp}
    /\ Finish("bind", holder.inp, "ok", FALSE)
    /\ UNCHANGED <<config, in_config, tallies, bound_inputs, bound_input_tally_keys,
                   holder, waiters, added_q, tally_subs, pushes, received, merged>>

\* gather is done: subscribe to on_tally_added and release the lock
GatherDone ==
    /\ locked
    /\ holder.pend = {}
    /\ subscribed' = subscribed \cup {holder.inp}
    /\ holder' = NoHolder
    /\ Finish("bind", holder.inp, "ok", FALSE)
    /\ UNCHANGED <<config, in_config, tallies, bound_inputs, bound_input_tally_keys,
                   waiters, added_q, tally_subs, pushes, received, merged>>

\* -------------------------------------------------------- unbind_from_input
\* variant: the input is deleted from bound_inputs before the loop that fails
UnbindBody_delete_first(i) ==
    /\ subscribed' = subscribed \ {i}
    /\ IF i \notin bound_inputs
       THEN /\ Finish("unbind", i, "KeyError", FALSE)
            /\ UNCHANGED <<bound_inputs, tally_subs>>
       ELSE /\ bound_inputs' = bound_inputs \ {i}
            /\ IF DOMAIN bound_input_tally_keys # {}
               THEN /\ Finish("unbind", i, "AttributeError", TRUE)
                    /\ UNCHANGED tally_subs
               ELSE /\ tally_subs' = {p \in tally_subs : p[1] # i}
                    /\ Finish("unbind", i, "ok", TRUE)
    /\ UNCHANGED <<bound_input_tally_keys, holder, pushes, received>>

\* variant: the ids are discarded from the sets, the del is forgotten
UnbindBody_discard_only(i) ==
    /\ subscribed' = subscribed \ {i}
    /\ bound_input_tally_keys' =
          [k \in DOMAIN bound_input_tally_keys |-> bound_input_tally_keys[k] \ {i}]
    /\ tally_subs' = {p \in tally_subs : p[1] # i}
    /\ Finish("unbind", i, "ok", i \in bound_inputs)
    /\ UNCHANGED <<bound_inputs, holder, pushes, received>>

\* the body of unbind_from_input under _input_lock; it never suspends
UnbindBody(i) ==
    /\ subscribed' = subscribed \ {i}
    /\ IF DOMAIN bound_input_tally_keys # {}
       THEN \* iterating the dict yields its keys: a tuple has no discard()
            /\ Finish("unbind", i, "AttributeError", i \in bound_inputs)
            /\ UNCHANGED <<bound_inputs, tally_subs>>
       ELSE IF i \notin bound_inputs
       THEN /\ Finish("unbind", i, "KeyError", FALSE)
            /\ UNCHANGED <<bound_inputs, tally_subs>>
       ELSE /\ bound_inputs' = bound_inputs \ {i}
            /\ tally_subs' = {p \in tally_subs : p[1] # i}
            /\ Finish("unbind", i, "ok", TRUE)
    /\ UNCHANGED <<bound_input_tally_keys, holder, pushes, received>>

UnbindCall(i) ==
    /\ IF LockFree
       THEN UnbindBody(i) /\ UNCHANGED waiters
       ELSE /\ Enqueue("unbind", i, NoKey)
            /\ UNCHANGED <<bound_inputs, bound_input_tally_keys, holder,
                           subscribed, tally_subs, pushes, received, last_op>>
    /\ UNCHANGED <<config, in_config, tallies, added_q, merged>>

UnbindResume ==
    /\ Woken("unbind")
    /\ waiters' = Tail(waiters)
    /\ UnbindBody(Head(waiters).inp)
    /\ UNCHANGED <<config, in_config, tallies, added_q, merged, rt, aux>>

\* ------------------------------------------------------------ on_tally_added
AddedBody(i, key) ==
    /\ bind_to_tally(i, key)
    /\ Finish("added", i, "ok", TRUE)
    /\ UNCHANGED <<bound_inputs, holder, subscribed>>

\* variant: on_tally_added binds whatever tally is announced
AddedStart_unchecked(i, key) ==
    /\ <<i, key>> \in added_q
    /\ IF LockFree
       THEN /\ AddedBody(i, key)
            /\ added_q' = added_q \ {<<i, key>>}
            /\ UNCHANGED waiters
       ELSE /\ Enqueue("added", i, key)
            /\ added_q' = added_q \ {<<i, key>>}
            /\ UNCHANGED <<bound_inputs, bound_input_tally_keys, holder,
                           subscribed, tally_subs, pushes, received, last_op>>
    /\ UNCHANGED <<config, in_config, tallies, merged, rt, aux>>

\* a dispatched on_tally_added(i, key) starts
AddedStart(i, key) ==
    /\ <<i, key>> \in added_q
    /\ IF i \notin bound_inputs \/ ~tally_matches(config, key, all_tally)
       THEN /\ Finish("added", i, "noop", i \in bound_inputs)
            /\ added_q' = added_q \ {<<i, key>>}
            /\ UNCHANGED <<bound_inputs, bound_input_tally_keys, holder, waiters,
                           subscribed, tally_subs, pushes, received>>
       ELSE IF LockFree
       THEN /\ AddedBody(i, key)
            /\ added_q' = added_q \ {<<i, key>>}
            /\ UNCHANGED waiters
       ELSE /\ Enqueue("added", i, key)
            /\ added_q' = added_q \ {<<i, key>>}
            /\ UNCHANGED <<bound_inputs, bound_input_tally_keys, holder,
                           subscribed, tally_subs, pushes, received, last_op>>
    /\ UNCHANGED <<config, in_config, tallies, merged, rt, aux>>

AddedResume ==
    /\ Woken("added")
    /\ waiters' = Tail(waiters)
    /\ AddedBody(Head(waiters).inp, Head(waiters).key)
    /\ UNCHANGED <<config, in_config, tallies, added_q, merged, rt, aux>>

\* ------------------------------------------------------------- environment
\* an input learns a tally its config matches and emits on_tally_added
TallyAdded(i, key) ==
    /\ key \notin DOMAIN tallies[i]
    /\ tally_matches(in_config[i], key, all_tally)
    /\ tallies' = [tallies EXCEPT ![i] = DictPut(@, key, NewTally)]
    /\ added_q' = IF i \in subscribed THEN added_q \cup {<<i, key>>} ELSE added_q
    /\ UNCHANGED <<config, in_config, bound_inputs, bound_input_tally_keys,
                   holder, waiters, subscribed, tally_subs, pushes, received,
                   last_op, merged>>

PropType(prop) ==
    IF prop = "rh_tally" THEN rh_tally ELSE IF prop = "txt_tally" THEN txt_tally ELSE lh_tally

\* a tally of an input changes colour
SetTally(i, key, prop, color) ==
    /\ key \in DOMAIN tallies[i]
    /\ IF in_config[i].kind = "single"
       THEN \* GpioInput._set_tally_state
            /\ PropType(prop) = in_config[i].tally_type
            /\ color \in {in_config[i].color_mask, OFF}
       ELSE \* UmdInput: whatever the receiver got
            /\ prop \in UmdProps
            /\ color \in UmdColors
    /\ tallies[i][key][prop] # color
    /\ tallies' = [tallies EXCEPT ![i][key][prop] = color]
    /\ UNCHANGED <<config, in_config, bound_inputs, bound_input_tally_keys,
                   holder, waiters, added_q, subscribed, tally_subs, pushes,
                   received, last_op, merged>>

SetColor(i, key, prop, color) == SetTally(i, key, prop, color) /\ UNCHANGED <<rt, aux>>

GetMerged(key, tt) ==
    /\ bound_input_tally_keys' = KeysAfterGet(key)
    /\ merged' = IF get_all_input_tallies_raises(key)
                 THEN [key |-> key, type |-> tt, color |-> OFF, res |-> "KeyError"]
                 ELSE [key |-> key, type |-> tt, color |-> get_merged_tally(key, tt),
                       res |-> "ok"]
    /\ UNCHANGED <<config, in_config, tallies, bound_inputs, holder, waiters, added_q,
                   subscribed, tally_subs, pushes, received, last_op, rt, aux>>

\* ---------------------------------------------------------- specifications
BindStart(i) == BindCall(i) /\ UNCHANGED <<rt, aux>>

BindGather(key) == GatherStep(key) /\ UNCHANGED <<rt, aux>>

BindFinish == GatherDone /\ UNCHANGED <<rt, aux>>

UnbindStart(i) == UnbindCall(i) /\ UNCHANGED <<rt, aux>>

AddTally(i, key) == TallyAdded(i, key) /\ UNCHANGED <<rt, aux>>

Next ==
    \/ \E i \in Inputs : BindStart(i)
    \/ BindResume
    \/ \E key \in Keys : BindGather(key)
    \/ BindFinish
    \/ \E i \in Inputs : UnbindStart(i)
    \/ UnbindResume
    \/ \E i \in Inputs, key \in Keys : AddedStart(i, key)
    \/ AddedResume
    \/ \E i \in Inputs, key \in Keys : AddTally(i, key)

Spec == Init /\ [][Next]_vars

\* the event loop runs every coroutine that is ready: the gathered
\* bind_to_tally calls, the woken waiter of the lock, a dispatched callback
SpecFair ==
    /\ InitWith({c \in InConfigs : c["in1"].kind = "single"})
    /\ [][Next]_vars
    /\ \A key \in Keys : WF_vars(BindGather(key))
    /\ WF_vars(BindFinish)
    /\ WF_vars(BindResume) /\ WF_vars(UnbindResume) /\ WF_vars(AddedResume)
    /\ \A i \in Inputs, key \in Keys : WF_vars(AddedStart(i, key))

\* the caller of get_merged_tally drops the result
ReturnMerged ==
    /\ merged # NoMerged
    /\ merged' = NoMerged
    /\ UNCHANGED <<config, in_config, tallies, bound_inputs, bound_input_tally_keys,
                   holder, waiters, added_q, subscribed, tally_subs, pushes,
                   received, last_op, rt, aux>>

\* the same operations called one at a time by a caller that awaits each
\* call, with tally colour changes and get_merged_tally queries in between;
\* get_merged_tally does not suspend, so nothing runs between a call and
\* the use of its result
NextMerge ==
    \/ /\ merged = NoMerged
       /\ \/ \E i \in Inputs : LockFree /\ BindStart(i)
          \/ \E key \in Keys : BindGather(key)
          \/ BindFinish
          \/ \E i \in Inputs : LockFree /\ UnbindStart(i)
          \/ \E i \in Inputs, key \in Keys : LockFree /\ AddedStart(i, key)
          \/ \E i \in Inputs, key \in Keys : AddTally(i, key)
          \/ \E i \in Inputs, key \in Keys, prop \in AllProps, color \in Colors :
                SetColor(i, key, prop, color)
    \/ \E key \in Keys, tt \in MergeTypes : GetMerged(key, tt)
    \/ ReturnMerged

SpecMerge == InitMerge /\ [][NextMerge]_vars

\* a UmdInput whose config lists one tally masked RED, next to a GpioInput
MaskedInConfigs ==
    { [in1 |-> MultiTallyConfigOf(<<SingleTallyConfig(1, 1, rh_tally, RED)>>),
       in2 |-> SingleTallyConfig(1, 1, rh_tally, GREEN)] }

\* get_merged_tally(tally, tally_type) with the live Tally of a bound input,
\* as on_receiver_tally_change gets it
GetMergedTally(i, key, tt) ==
    /\ i \in bound_inputs
    /\ <<i, key>> \in tally_subs
    /\ has_tally(i, key)
    /\ bound_input_tally_keys' = KeysAfterGet(key)
    /\ merged' = IF get_all_input_tallies_raises(key)
                 THEN [key |-> key, type |-> tt, color |-> OFF, res |-> "KeyError"]
                 ELSE [key |-> key, type |-> tt,
                       color |-> BitOr(TallyGetItem(tallies[i][key], tt),
                                       get_merged_tally(key, tt)),
                       res |-> "tally"]
    /\ UNCHANGED <<config, in_config, tallies, bound_inputs, holder, waiters, added_q,
                   subscribed, tally_subs, pushes, received, last_op, rt, aux>>

\* the inputs are bound one call at a time, their tallies change colour and
\* the Output asks for the merged colour of a live Tally
NextMergeTally ==
    \/ /\ merged = NoMerged
       /\ \/ \E i \in Inputs : LockFree /\ BindStart(i)
          \/ \E key \in Keys : BindGather(key)
          \/ BindFinish
          \/ \E i \in Inputs, key \in Keys : LockFree /\ AddedStart(i, key)
          \/ \E i \in Inputs, key \in Keys : AddTally(i, key)
          \/ \E i \in Inputs, key \in Keys, prop \in AllProps, color \in Colors :
                SetColor(i, key, prop, color)
          \/ \E i \in Inputs, key \in Keys, tt \in MergeTypes : GetMergedTally(i, key, tt)
    \/ ReturnMerged

SpecMergeTally == InitWith(MaskedInConfigs) /\ [][NextMergeTally]_vars

\* ------------------------------------------------ bind / unbind / bind
\* the registry as a completed bind_to_input(i) left it
Snapshot(i) ==
    [phase |-> "bound", inp |-> i, bound |-> bound_inputs',
     keys |-> bound_input_tally_keys']

\* a sequential caller binds an input, or binds again the one it unbound
RtBind(i) ==
    /\ LockFree
    /\ rt.phase \in {"setup", "bound"} \/ (rt.phase = "unbound" /\ i = rt.inp)
    /\ BindCall(i)
    /\ rt' = IF holder' # NoHolder
             THEN [rt EXCEPT !.inp = i,
                             !.phase = IF rt.phase = "unbound" THEN "rebinding"
                                       ELSE "binding"]
             ELSE IF rt.phase = "unbound" THEN [rt EXCEPT !.phase = "rebound"]
             ELSE Snapshot(i)
    /\ UNCHANGED aux

RtBindDone ==
    /\ GatherDone
    /\ rt' = IF rt.phase = "rebinding" THEN [rt EXCEPT !.phase = "rebound"]
             ELSE Snapshot(holder.inp)
    /\ UNCHANGED aux

RtUnbind ==
    /\ LockFree
    /\ rt.phase = "bound"
    /\ UnbindCall(rt.inp)
    /\ rt' = [rt EXCEPT !.phase = "unbound"]
    /\ UNCHANGED aux

\* the inputs learn their tallies, then bind_to_input(x), unbind_from_input(x)
\* and bind_to_input(x) are awaited one after the other
NextRebind ==
    \/ \E i \in Inputs, key \in Keys : rt.phase = "setup" /\ AddTally(i, key)
    \/ \E i \in Inputs : RtBind(i)
    \/ \E key \in Keys : BindGather(key)
    \/ RtBindDone
    \/ RtUnbind

SpecRebind == Init /\ [][NextRebind]_vars

\* ------------------------------------------------------------ LED outputs
\* the state of the Output's binding registry, the Inputs and the callers
binding == <<config, in_config, tallies, bound_inputs, bound_input_tally_keys,
             holder, waiters, added_q, subscribed, tally_subs, pushes, received,
             last_op, merged, rt>>

\* what a call passes for a parameter of on_receiver_tally_change
TallyArg(i, key) == [tag |-> "tally", inp |-> i, key |-> key]

PropsArg == [tag |-> "props", inp |-> NoInput, key |-> NoKey]

MissingArg == [tag |-> "missing", inp |-> NoInput, key |-> NoKey]

\* BaseLED.on_receiver_tally_change(inp, tally, *args, **kwargs): the colour
\* the LED shows afterwards.  A call that leaves `tally` unfilled raises
\* TypeError; one that fills it with the changed properties raises in
\* tally_matches or at tally.normalized_brightness; set_led is reached only
\* with a Tally for `tally`
BaseLED_on_receiver_tally_change(inp, tally) ==
    IF tally.tag = "missing" THEN led.color
    ELSE IF tally.tag # "tally" THEN led.color
    ELSE IF ~tally_matches(config, tally.key, all_tally) THEN led.color
    ELSE BitOr(TallyGetItem(tallies[tally.inp][tally.key], config.tally_type),
               get_merged_tally(tally.key, config.tally_type))

\* bind_to_tally calls on_receiver_tally_change(tally, props_changed=...):
\* the Tally fills `inp`, nothing fills `tally`; logger.catch swallows the error
LedGather(key) ==
    /\ GatherStep(key)
    /\ led' = [led EXCEPT !.color =
                 BaseLED_on_receiver_tally_change(TallyArg(holder.inp, key), MissingArg)]
    /\ UNCHANGED <<rt, mgr, cq, mtc, ext>>

\* a bound tally changes colour: its on_update is dispatched to the Output
LedSetColor(i, key, prop, color) ==
    /\ SetTally(i, key, prop, color)
    /\ led' = [led EXCEPT !.pending =
                 IF <<i, key>> \in tally_subs THEN @ \cup {<<i, key>>} ELSE @]
    /\ UNCHANGED <<rt, mgr, cq, mtc, ext>>

\* Tally emits on_update(tally, props_changed): the Tally fills `inp` and the
\* changed properties fill `tally`
LedUpdate(i, key) ==
    /\ <<i, key>> \in led.pending
    /\ led' = [color |-> BaseLED_on_receiver_tally_change(TallyArg(i, key), PropsArg),
               pending |-> led.pending \ {<<i, key>>}]
    /\ UNCHANGED <<binding, mgr, cq, mtc, ext>>

\* an open LED output with a SingleTallyConfig, as in test_color_merge
InitLed ==
    /\ CoreInit(MergeInConfigs)
    /\ config.kind = "single"
    /\ led = NoLed
    /\ mgr = NoManager
    /\ cq = NoQuery
    /\ mtc = NoMulti
    /\ ExtIdle

\* inputs are bound one call at a time while their tallies appear and change
\* colour; on_tally_added ends in the same rejected call as LedGather and
\* leaves the LED as it is
NextLed ==
    \/ \E i \in Inputs : LockFree /\ BindStart(i)
    \/ \E key \in Keys : LedGather(key)
    \/ BindFinish
    \/ \E i \in Inputs, key \in Keys : LockFree /\ AddedStart(i, key)
    \/ \E i \in Inputs, key \in Keys : AddTally(i, key)
    \/ \E i \in Inputs, key \in Keys, prop \in AllProps, color \in Colors :
          LedSetColor(i, key, prop, color)
    \/ \E i \in Inputs, key \in Keys : LedUpdate(i, key)

SpecLed == InitLed /\ [][NextLed]_vars

\* ----------------------------------------------------------------- Manager
Outs == {"out1"}

Containers == {"inputs", "outputs"}

ObjectsOf(cont) == IF cont = "inputs" THEN Inputs ELSE Outs

DictDel(d, k) == [x \in (DOMAIN d) \ {k} |-> d[x]]

Values(d) == {d[k] : k \in DOMAIN d}

\* the config files a Manager can start from
ConfData ==
    { NoObjects,
      [inputs |-> (0 :> "in1"), outputs |-> (0 :> "out1")] }

\* BaseIO.id: None from __init__ on; no container operation assigns it
IdOf(obj) == None

\* IOContainer.key_for_object: the first free index of the namespace
key_for_object(d) ==
    CHOOSE ix \in 0..Cardinality(DOMAIN d) :
        ix \notin DOMAIN d /\ \A j \in 0..(ix - 1) : j \in DOMAIN d

\* Manager._readonly
Manager_readonly(m) == m.readonly /\ ~m.override

\* variant: write_config without the readonly check
write_config_unchecked(m) ==
    [m EXCEPT !.store = m.objects, !.evt = TRUE, !.last = "write"]

\* Manager.write_config
write_config(m) ==
    IF Manager_readonly(m) THEN [m EXCEPT !.last = "skip"]
    ELSE [m EXCEPT !.store = m.objects, !.evt = TRUE, !.last = "write"]

\* Manager.on_io_update
on_io_update(m) ==
    IF Manager_readonly(m) THEN [m EXCEPT !.last = "skip"]
    ELSE write_config(m)

\* BaseOutput.bind_to_input on an Output of the Manager, on its dict
\* bound_inputs (pairs of id and Input); the bind suspends only after the
\* Input is stored, so for bound_inputs it acts in one step
MgrBindRaises(m, b, i) ==
    /\ IdOf(i) \notin {p[1] : p \in b}
    /\ m.asserts
    /\ IdOf(i) = None

MgrBindOne(m, b, i) ==
    IF IdOf(i) \in {p[1] : p \in b} THEN b
    ELSE IF MgrBindRaises(m, b, i) THEN b
    ELSE b \cup {<<IdOf(i), i>>}

\* the dicts a gather of bind_to_input calls can leave, the calls being run
\* in the order of a set of coroutines
RECURSIVE MgrBindAll(_, _, _)
MgrBindAll(m, b, S) ==
    IF S = {} THEN {b}
    ELSE UNION {MgrBindAll(m, MgrBindOne(m, b, i), S \ {i}) : i \in S}

BoundOf(m, o) == IF o \in DOMAIN m.bound THEN m.bound[o] ELSE {}

Emit(m, evs) == [m EXCEPT !.events = m.events \o evs]

Event(cb, obj) == [cb |-> cb, obj |-> obj]

\* emit('object_added', key, obj); emit('update')
AddedEvents(cont, obj) ==
    << Event(IF cont = "inputs" THEN "on_input_added" ELSE "on_output_added", obj),
       Event("on_io_update", "none") >>

\* IOContainer.deserialize: object_added for every object, by key
RECURSIVE ObjectAdded(_, _)
ObjectAdded(cb, d) ==
    IF DOMAIN d = {} THEN << >>
    ELSE LET k == CHOOSE x \in DOMAIN d : \A y \in DOMAIN d : x <= y
         IN << Event(cb, d[k]) >> \o ObjectAdded(cb, DictDel(d, k))

\* a container operation ends: it emitted 'update'
Changed(m) == [m EXCEPT !.changed = (m.pc = "block"), !.op = NoMgrOp, !.last = "none"]

MgrCanCall == mgr.pc \in {"idle", "block"} /\ mgr.op = NoMgrOp

MgrRoom == Len(mgr.events) + 2 <= MaxEvents

\* the event loop runs a callback only while the calling coroutine is
\* suspended: in an awaited open() or close(), in config_write_evt.wait(),
\* or between two top-level calls
MgrLoopRuns == mgr.pc \in {"idle", "waiting"} \/ mgr.op # NoMgrOp

\* IOContainer.add(obj): the object is stored; a running container awaits
\* obj.open() before it emits object_added and update
MgrAdd(cont, obj) ==
    /\ MgrCanCall /\ MgrRoom
    /\ obj \in ObjectsOf(cont) \ Values(mgr.objects[cont])
    /\ LET key == key_for_object(mgr.objects[cont])
           m1 == [mgr EXCEPT !.objects[cont] = DictPut(@, key, obj)]
       IN mgr' = IF mgr.running
                 THEN [m1 EXCEPT !.op = [kind |-> "add", cont |-> cont, key |-> key,
                                         obj |-> obj],
                                 !.last = "none"]
                 ELSE Changed(Emit(m1, AddedEvents(cont, obj)))
    /\ UNCHANGED <<binding, led, cq, mtc, ext>>

\* IOContainer.remove(key): the object is deleted, then obj.close() awaited
MgrRemove(cont, key) ==
    /\ MgrCanCall /\ MgrRoom
    /\ key \in DOMAIN mgr.objects[cont]
    /\ mgr' = [mgr EXCEPT !.objects[cont] = DictDel(@, key),
                          !.op = [kind |-> "remove", cont |-> cont, key |-> key,
                                  obj |-> mgr.objects[cont][key]],
                          !.last = "none"]
    /\ UNCHANGED <<binding, led, cq, mtc, ext>>

\* IOContainer.replace(key, obj): old.close() is awaited before anything
\* is changed
MgrReplace(cont, key, obj) ==
    /\ MgrCanCall /\ MgrRoom
    /\ key \in DOMAIN mgr.objects[cont]
    /\ obj \in ObjectsOf(cont) \ Values(mgr.objects[cont])
    /\ mgr' = [mgr EXCEPT !.op = [kind |-> "replace", cont |-> cont, key |-> key,
                                  obj |-> obj],
                          !.last = "none"]
    /\ UNCHANGED <<binding, led, cq, mtc, ext>>

\* the awaited open() or close() returns and the operation goes on to its end
MgrResume ==
    /\ mgr.op # NoMgrOp
    /\ LET op == mgr.op
       IN mgr' =
            IF op.kind = "add"
            THEN Changed(Emit(mgr, AddedEvents(op.cont, op.obj)))
            ELSE IF op.kind = "remove"
            THEN Changed(Emit(mgr, << Event("on_io_update", "none") >>))
            ELSE IF mgr.running
            THEN \* replace: del, emit object_removed, then add() up to open()
                 [mgr EXCEPT !.objects[op.cont] = DictPut(@, op.key, op.obj),
                             !.op = [op EXCEPT !.kind = "add"],
                             !.last = "none"]
            ELSE Changed(Emit([mgr EXCEPT !.objects[op.cont] = DictPut(@, op.key, op.obj)],
                              AddedEvents(op.cont, op.obj)))
    /\ UNCHANGED <<binding, led, cq, mtc, ext>>

\* Manager.read_config before the containers run: deserialize() stores the
\* objects and emits object_added for each, and no update
MgrReadConfig ==
    /\ MgrCanCall
    /\ ~mgr.config_read
    /\ Len(mgr.events) = 0
    /\ mgr' = [Emit([mgr EXCEPT !.objects = mgr.store],
                    ObjectAdded("on_input_added", mgr.store.inputs)
                    \o ObjectAdded("on_output_added", mgr.store.outputs))
               EXCEPT !.config_read = TRUE, !.last = "none"]
    /\ UNCHANGED <<binding, led, cq, mtc, ext>>

\* Manager.open: reads the config if it was not read, then the containers run
MgrOpen ==
    /\ MgrCanCall
    /\ ~mgr.running
    /\ mgr.config_read
    /\ mgr' = [mgr EXCEPT !.running = TRUE, !.last = "none"]
    /\ UNCHANGED <<binding, led, cq, mtc, ext>>

\* a direct call of Manager.write_config
MgrWriteConfig ==
    /\ MgrCanCall
    /\ mgr.pc # "none"
    /\ mgr' = write_config(mgr)
    /\ UNCHANGED <<binding, led, cq, mtc, ext>>

\* Manager.on_input_added: Outputs.bind_all_to_input
OnInputAdded ==
    /\ MgrLoopRuns
    /\ mgr.events # << >>
    /\ Head(mgr.events).cb = "on_input_added"
    /\ LET i == Head(mgr.events).obj
           outs == Values(mgr.objects.outputs)
       IN mgr' = [mgr EXCEPT
                    !.events = Tail(@),
                    !.bound = [o \in (DOMAIN mgr.bound) \cup outs |->
                                 IF o \in outs THEN MgrBindOne(mgr, BoundOf(mgr, o), i)
                                 ELSE mgr.bound[o]],
                    !.last = IF \E o \in outs : MgrBindRaises(mgr, BoundOf(mgr, o), i)
                             THEN "AssertionError" ELSE "none"]
    /\ UNCHANGED <<binding, led, cq, mtc, ext>>

\* Manager.on_output_added: the Output binds to every Input of the container
OnOutputAdded ==
    /\ MgrLoopRuns
    /\ mgr.events # << >>
    /\ Head(mgr.events).cb = "on_output_added"
    /\ LET o == Head(mgr.events).obj
           ins == Values(mgr.objects.inputs)
       IN \E b \in MgrBindAll(mgr, BoundOf(mgr, o), ins) :
            mgr' = [mgr EXCEPT
                      !.events = Tail(@),
                      !.bound = [x \in (DOMAIN mgr.bound) \cup {o} |->
                                   IF x = o THEN b ELSE mgr.bound[x]],
                      !.last = IF \E i \in ins : MgrBindRaises(mgr, BoundOf(mgr, o), i)
                               THEN "AssertionError" ELSE "none"]
    /\ UNCHANGED <<binding, led, cq, mtc, ext>>

\* Manager.on_io_update runs; state_lock is free whenever it does
OnIoUpdate ==
    /\ MgrLoopRuns
    /\ mgr.events # << >>
    /\ Head(mgr.events).cb = "on_io_update"
    /\ mgr' = [on_io_update(mgr) EXCEPT !.events = Tail(mgr.events)]
    /\ UNCHANGED <<binding, led, cq, mtc, ext>>

\* ReadonlyOverride.acquire: async with manager.readonly_override
OverrideEnter ==
    /\ mgr.pc = "idle" /\ mgr.op = NoMgrOp
    /\ MgrRoom
    /\ mgr' = [mgr EXCEPT !.pc = "block", !.evt = FALSE, !.override = TRUE,
                          !.changed = FALSE, !.last = "none"]
    /\ UNCHANGED <<binding, led, cq, mtc, ext>>

\* await config_write_evt.wait() inside the block, by the writer of a change
OverrideWait ==
    /\ mgr.pc = "block" /\ mgr.op = NoMgrOp
    /\ mgr.changed
    /\ mgr' = [mgr EXCEPT !.pc = "waiting", !.last = "none"]
    /\ UNCHANGED <<binding, led, cq, mtc, ext>>

\* the event is set: the wait returns and ReadonlyOverride.release ends the block
OverrideExit ==
    /\ mgr.pc = "waiting"
    /\ mgr.evt
    /\ mgr' = [mgr EXCEPT !.pc = "idle", !.override = FALSE, !.last = "none"]
    /\ UNCHANGED <<binding, led, cq, mtc, ext>>

InitManager ==
    /\ CoreInit(InConfigs)
    /\ config.kind = "single" /\ in_config["in1"].kind = "single"
    /\ led = NoLed
    /\ cq = NoQuery
    /\ mtc = NoMulti
    /\ ExtIdle
    /\ \E ro \in BOOLEAN, as \in BOOLEAN, data \in ConfData :
          mgr = [NoManager EXCEPT !.readonly = ro, !.asserts = as, !.store = data,
                                  !.config_read = FALSE, !.pc = "idle"]

NextManager ==
    \/ \E cont \in Containers, obj \in Inputs \cup Outs : MgrAdd(cont, obj)
    \/ \E cont \in Containers, key \in 0..1 : MgrRemove(cont, key)
    \/ \E cont \in Containers, key \in 0..1, obj \in Inputs \cup Outs :
          MgrReplace(cont, key, obj)
    \/ MgrResume
    \/ MgrReadConfig
    \/ MgrOpen
    \/ MgrWriteConfig
    \/ OnInputAdded
    \/ OnOutputAdded
    \/ OnIoUpdate
    \/ OverrideEnter
    \/ OverrideWait
    \/ OverrideExit

SpecManager == InitManager /\ [][NextManager]_vars

\* the body of an override block runs on: it calls the containers or awaits
\* the event
OverrideBlockStep == mgr.pc = "block" /\ mgr.op = NoMgrOp /\ NextManager

\* the event loop runs every callback it was given, an awaited open() or
\* close() returns, a coroutine waiting for a set event resumes, and the
\* body of a block does not stall
SpecManagerFair ==
    /\ SpecManager
    /\ WF_vars(OnInputAdded) /\ WF_vars(OnOutputAdded) /\ WF_vars(OnIoUpdate)
    /\ WF_vars(MgrResume) /\ WF_vars(OverrideExit)
    /\ WF_vars(OverrideBlockStep)

\* ----------------------------------------------------- matching queries
Screens == {None, Broadcast, 1, 2}

Indices == {None, Broadcast, 1, 2}

TallyTypes == {no_tally, rh_tally, txt_tally, rh_tally + txt_tally, all_tally}

SingleConfs ==
    {SingleTallyConfig(scr, ix, tt, AMBER) : scr \in Screens, ix \in Indices,
                                              tt \in TallyTypes}

MultiConfs == {MultiTallyConfig(scr, all) : scr \in Screens, all \in BOOLEAN}

\* the `tallies` lists a MultiTallyConfig is queried with
TallyLists ==
    { << >>,
      << SingleTallyConfig(1, 1, rh_tally, AMBER) >>,
      << SingleTallyConfig(2, None, no_tally, AMBER),
         SingleTallyConfig(None, 2, all_tally, AMBER) >> }

\* ints, Tally objects and configs given to the matching methods
QueryArgs ==
    {IntArg(n) : n \in Screens \ {None}}
    \cup {TallyObj(scr, ix) : scr \in Screens \ {None}, ix \in Indices \ {None}}
    \cup SingleConfs
    \cup {MultiTallyConfig(scr, TRUE) : scr \in Screens}

\* c.matches_screen(o)
config_matches_screen(c, o) ==
    IF c.kind = "single" THEN Single_matches_screen(c, o)
    ELSE Multi_matches_screen(c, o)

\* c.matches(o, tt)
config_matches(c, ts, o, tt) ==
    IF c.kind = "single" THEN Single_matches(c, o, tt)
    ELSE Multi_contains(c, ts, o, tt)

\* normalize_screen(c), normalize_tally_index(c), c.tally_key,
\* c.is_broadcast_screen, c.is_broadcast_tally
config_props(c) ==
    [screen |-> normalize_screen_obj(c),
     index |-> normalize_tally_index_obj(c),
     key |-> tally_key(c),
     is_broadcast_screen |-> is_broadcast_screen(c),
     is_broadcast_tally |-> is_broadcast_tally(c)]

QueryMatchesScreen ==
    /\ cq.phase = "input"
    /\ cq' = [cq EXCEPT !.phase = "matches_screen",
                        !.res = config_matches_screen(cq.c, cq.o)]
    /\ UNCHANGED <<binding, led, mgr, mtc, ext>>

QueryMatches(tt, ts) ==
    /\ cq.phase = "input"
    /\ cq.o.kind \in {"tally", "single"}
    /\ cq.c.kind = "single" => ts = << >>
    /\ cq' = [cq EXCEPT !.phase = "matches", !.tt = tt, !.tallies = ts,
                        !.res = config_matches(cq.c, ts, cq.o, tt)]
    /\ UNCHANGED <<binding, led, mgr, mtc, ext>>

QueryProps ==
    /\ cq.phase = "input"
    /\ cq' = [cq EXCEPT !.phase = "props", !.props = config_props(cq.c)]
    /\ UNCHANGED <<binding, led, mgr, mtc, ext>>

InitConfig ==
    /\ CoreInit(InConfigs)
    /\ config.kind = "single" /\ in_config["in1"].kind = "single"
    /\ led = NoLed
    /\ mgr = NoManager
    /\ mtc = NoMulti
    /\ ExtIdle
    /\ \E c \in SingleConfs \cup MultiConfs, o \in QueryArgs :
          cq = [NoQuery EXCEPT !.phase = "input", !.c = c, !.o = o]

NextConfig ==
    \/ QueryMatchesScreen
    \/ \E tt \in TallyTypes, ts \in TallyLists : QueryMatches(tt, ts)
    \/ QueryProps

SpecConfig == InitConfig /\ [][NextConfig]_vars

\* ------------------------------------------- MultiTallyConfig.tallies
\* the members given to `tallies`
MemberConfs ==
    { SingleTallyConfig(1, 1, rh_tally, AMBER),
      SingleTallyConfig(1, None, txt_tally, AMBER),
      SingleTallyConfig(None, 2, all_tally, AMBER) }

\* what the config is asked about: Tally objects and SingleTallyConfigs
MemberQueries ==
    { TallyObj(1, 1), TallyObj(1, 2),
      SingleTallyConfig(2, 1, txt_tally, AMBER),
      SingleTallyConfig(1, 1, txt_tally, AMBER),
      SingleTallyConfig(None, 1, rh_tally, AMBER) }

QueryTypes == {rh_tally, txt_tally, all_tally}

\* the key of the tally a query is about
QueryKey(o) ==
    IF o.kind = "single" THEN tally_key(o) ELSE <<o.screen_index, o.tally_index>>

\* the tally type of a query: the SingleTallyConfig's own, or the argument
QueryType(o, tt) == IF o.kind = "single" THEN o.tally_type ELSE tt

\* a linear scan of tallies: the first member that matches, or NoMatch
FreshScan(ts, o, tt) ==
    LET n == ScanFrom(ts, 1, o, QueryType(o, tt))
    IN IF n = 0 THEN NoMatch ELSE ts[n]

\* tallies.append(t); the memo is dropped
MultiAppend(t) ==
    /\ mtc.phase # "none"
    /\ Len(mtc.tallies) < MaxTallies
    /\ mtc' = [mtc EXCEPT !.phase = "changed", !.tallies = Append(@, t),
                          !.memo = EmptyDict]
    /\ UNCHANGED <<binding, led, mgr, cq, ext>>

\* tallies.remove of the member at position n; the memo is dropped
MultiRemove(n) ==
    /\ mtc.phase # "none"
    /\ n \in 1..Len(mtc.tallies)
    /\ mtc' = [mtc EXCEPT !.phase = "changed",
                          !.tallies = SubSeq(@, 1, n - 1) \o SubSeq(@, n + 1, Len(@)),
                          !.memo = EmptyDict]
    /\ UNCHANGED <<binding, led, mgr, cq, ext>>

\* MultiTallyConfig.contains(o, tt, return_matched=True) with allow_all
\* False: the memo is consulted, then tallies scanned and a hit memoized
MultiQuery(o, tt) ==
    /\ mtc.phase # "none"
    /\ LET k == <<QueryKey(o), QueryType(o, tt)>>
           r == IF k \in DOMAIN mtc.memo THEN mtc.memo[k]
                ELSE FreshScan(mtc.tallies, o, tt)
       IN mtc' = [mtc EXCEPT !.phase = "queried", !.o = o, !.tt = tt, !.res = r,
                             !.memo = IF r = NoMatch THEN @ ELSE DictPut(@, k, r)]
    /\ UNCHANGED <<binding, led, mgr, cq, ext>>

InitMulti ==
    /\ CoreInit(InConfigs)
    /\ config.kind = "single" /\ in_config["in1"].kind = "single"
    /\ led = NoLed
    /\ mgr = NoManager
    /\ cq = NoQuery
    /\ mtc = [NoMulti EXCEPT !.phase = "new"]
    /\ ExtIdle

NextMulti ==
    \/ \E t \in MemberConfs : MultiAppend(t)
    \/ \E n \in 1..MaxTallies : MultiRemove(n)
    \/ \E o \in MemberQueries, tt \in QueryTypes : MultiQuery(o, tt)

SpecMulti == InitMulti /\ [][NextMulti]_vars

\* ------------------------------------------- TallyConfig.to_dict / from_dict
\* the members of TallyType that have a name
TallyTypeNames ==
    [n \in {no_tally, rh_tally, txt_tally, lh_tally, all_tally} |->
        CASE n = no_tally -> "no_tally"
          [] n = rh_tally -> "rh_tally"
          [] n = txt_tally -> "txt_tally"
          [] n = lh_tally -> "lh_tally"
          [] n = all_tally -> "all_tally"]

\* TallyType.name: a combination of flags that is no member has no member's
\* name
TallyTypeName(tt) ==
    IF tt \in DOMAIN TallyTypeNames THEN TallyTypeNames[tt] ELSE "no member"

\* what a call that raised leaves instead of a value
Raised(err) == [cls |-> "raised", error |-> err]

\* the dataclass SingleTallyConfig
SingleValue(ix, tt, scr, name) ==
    [cls |-> "SingleTallyConfig", tally_index |-> ix, tally_type |-> tt,
     screen_index |-> scr, name |-> name]

\* the dataclass MultiTallyConfig
MultiValue(ts, scr, all, name) ==
    [cls |-> "MultiTallyConfig", tallies |-> ts, screen_index |-> scr,
     allow_all |-> all, name |-> name]

\* SingleTallyConfig.to_dict
Single_to_dict(c) ==
    [tally_index |-> c.tally_index, tally_type |-> TallyTypeName(c.tally_type),
     screen_index |-> c.screen_index, name |-> c.name]

\* SingleTallyConfig.from_dict: getattr(TallyType, name), then cls(**kw)
Single_from_dict(d) ==
    IF \E n \in DOMAIN TallyTypeNames : TallyTypeNames[n] = d.tally_type
    THEN SingleValue(d.tally_index,
                     CHOOSE n \in DOMAIN TallyTypeNames : TallyTypeNames[n] = d.tally_type,
                     d.screen_index, d.name)
    ELSE Raised("AttributeError")

\* MultiTallyConfig.to_dict
Multi_to_dict(c) ==
    [tallies |-> [n \in 1..Len(c.tallies) |-> Single_to_dict(c.tallies[n])],
     allow_all |-> c.allow_all]

\* MultiTallyConfig.from_dict: screen_index and name get their defaults
Multi_from_dict(d) ==
    LET ts == [n \in 1..Len(d.tallies) |-> Single_from_dict(d.tallies[n])]
    IN IF \E n \in 1..Len(ts) : ts[n].cls = "raised"
       THEN Raised("AttributeError")
       ELSE MultiValue(ts, None, d.allow_all, "")

config_to_dict(c) ==
    IF c.cls = "SingleTallyConfig" THEN Single_to_dict(c) ELSE Multi_to_dict(c)

config_from_dict(cls, d) ==
    IF cls = "SingleTallyConfig" THEN Single_from_dict(d) ELSE Multi_from_dict(d)

SingleValues ==
    {SingleValue(ix, tt, scr, name) :
        ix \in {1, Broadcast},
        tt \in {no_tally, rh_tally, txt_tally, rh_tally + txt_tally, all_tally},
        scr \in {None, 1}, name \in {"", "cam"}}

MultiValues ==
    {MultiValue(ts, scr, all, name) :
        ts \in { << >>,
                 << SingleValue(1, rh_tally, None, "") >>,
                 << SingleValue(1, rh_tally, 1, "cam"),
                    SingleValue(Broadcast, all_tally, None, "") >> },
        scr \in {None, 1}, all \in BOOLEAN, name \in {"", "cam"}}

ToDict ==
    /\ ser.phase = "value"
    /\ ser' = [ser EXCEPT !.phase = "data", !.data = config_to_dict(ser.value)]
    /\ UNCHANGED <<binding, led, mgr, cq, mtc, reg, bio>>

FromDict ==
    /\ ser.phase = "data"
    /\ ser' = [ser EXCEPT !.phase = "back",
                          !.back = config_from_dict(ser.value.cls, ser.data)]
    /\ UNCHANGED <<binding, led, mgr, cq, mtc, reg, bio>>

\* every other object idle
IdleButExt ==
    /\ CoreInit(InConfigs)
    /\ config.kind = "single" /\ in_config["in1"].kind = "single"
    /\ led = NoLed
    /\ mgr = NoManager
    /\ cq = NoQuery
    /\ mtc = NoMulti

InitSerial ==
    /\ IdleButExt
    /\ reg = NoReg /\ bio = NoObj
    /\ \E c \in SingleValues \cup MultiValues :
          ser = [NoSer EXCEPT !.phase = "value", !.value = c]

NextSerial == ToDict \/ FromDict

SpecSerial == InitSerial /\ [][NextSerial]_vars

\* ------------------------------------------------------- config.Option
\* Python values, each type with a field of its own
NoneV == [t |-> "none"]

IntV(n) == [t |-> "int", n |-> n]

StrV(str) == [t |-> "str", s |-> str]

BoolV(b) == [t |-> "bool", b |-> b]

\* a float, in tenths
FloatV(n) == [t |-> "float", f |-> n]

ListV(items) == [t |-> "list", items |-> items]

DictV(d) == [t |-> "dict", d |-> d]

TallyTypeV(tt) == [t |-> "TallyType", tt |-> tt]

\* an instance of a class with its attributes
ObjV(type, attrs) == [t |-> "obj", type |-> type, attrs |-> attrs]

IsRaised(r) == "error" \in DOMAIN r

\* Option(name=..., type=..., required=...)
Option(name, type, required) ==
    [name |-> name, type |-> type, required |-> required, choices |-> {},
     sub_options |-> << >>, validate_cb |-> "none", serialize_cb |-> "none",
     list |-> FALSE, min_length |-> None, max_length |-> None]

\* ListOption(name=..., type=..., required=...)
ListOption(name, type, required) ==
    [Option(name, type, required) EXCEPT !.list = TRUE]

\* SingleTallyConfig.get_init_options
SingleTallyConfig_options ==
    << Option("tally_index", "int", TRUE),
       [Option("tally_type", "str", TRUE) EXCEPT
           !.choices = {StrV(TallyTypeNames[n]) : n \in DOMAIN TallyTypeNames},
           !.serialize_cb = "name", !.validate_cb = "getattr"],
       Option("screen_index", "int", FALSE),
       Option("name", "str", FALSE) >>

\* MultiTallyConfig.get_init_options
MultiTallyConfig_options ==
    << [ListOption("tallies", "SingleTallyConfig", FALSE) EXCEPT
           !.sub_options = SingleTallyConfig_options],
       Option("screen_index", "int", FALSE),
       Option("allow_all", "bool", FALSE),
       Option("name", "str", FALSE) >>

SingleTallyOption ==
    [Option("config", "SingleTallyConfig", TRUE) EXCEPT
        !.sub_options = SingleTallyConfig_options]

MultiTallyOption ==
    [Option("config", "MultiTallyConfig", TRUE) EXCEPT
        !.sub_options = MultiTallyConfig_options]

PinOption == Option("pin", "int", TRUE)

ActiveHighOption == Option("active_high", "bool", FALSE)

BrightnessScaleOption == Option("brightness_scale", "float", FALSE)

RGBPinsOption ==
    [ListOption("pins", "int", TRUE) EXCEPT !.min_length = 3, !.max_length = 3]

\* get_init_options of the classes GpioInput, LED, RGBLED and UmdInput
get_init_options(cls) ==
    CASE cls = "input.gpio.GpioInput" -> << SingleTallyOption, PinOption >>
      [] cls = "output.gpio.LED" ->
            << SingleTallyOption, PinOption, ActiveHighOption, BrightnessScaleOption >>
      [] cls = "output.gpio.RGBLED" ->
            << SingleTallyOption, RGBPinsOption, ActiveHighOption,
               BrightnessScaleOption >>
      [] cls = "input.umd.UmdInput" ->
            << MultiTallyOption, Option("hostaddr", "str", FALSE),
               Option("hostport", "int", FALSE) >>

\* the parameters of __init__ that have no default
CtorRequired(type) ==
    CASE type = "SingleTallyConfig" -> {"tally_index"}
      [] type = "MultiTallyConfig" -> {}
      [] type = "input.gpio.GpioInput" -> {"config", "pin"}
      [] type = "output.gpio.LED" -> {"config", "pin"}
      [] type = "output.gpio.RGBLED" -> {"config", "pins"}
      [] type = "input.umd.UmdInput" -> {"config"}

\* the defaults of the other parameters of __init__
CtorDefaults(type) ==
    CASE type = "SingleTallyConfig" ->
            [tally_type |-> TallyTypeV(no_tally), screen_index |-> NoneV,
             name |-> StrV("")]
      [] type = "MultiTallyConfig" ->
            [tallies |-> ListV(<< >>), screen_index |-> NoneV,
             allow_all |-> BoolV(FALSE), name |-> StrV("")]
      [] type = "input.gpio.GpioInput" -> EmptyDict
      [] type \in {"output.gpio.LED", "output.gpio.RGBLED"} ->
            [active_high |-> BoolV(TRUE), brightness_scale |-> FloatV(10)]
      [] type = "input.umd.UmdInput" ->
            [hostaddr |-> [t |-> "default", of |-> "UmdReceiver.DEFAULT_HOST"],
             hostport |-> [t |-> "default", of |-> "UmdReceiver.DEFAULT_PORT"]]

\* type(**kw): a missing parameter without default is a TypeError
Construct(type, kw) ==
    IF ~(CtorRequired(type) \subseteq DOMAIN kw) THEN Raised("TypeError")
    ELSE ObjV(type, [n \in (DOMAIN kw) \cup (DOMAIN CtorDefaults(type)) |->
                        IF n \in DOMAIN kw THEN kw[n] ELSE CtorDefaults(type)[n]])

\* isinstance(value, type); a bool is an int
isinstance(value, type) ==
    CASE type = "int" -> value.t \in {"int", "bool"}
      [] type = "str" -> value.t = "str"
      [] type = "bool" -> value.t = "bool"
      [] type = "float" -> value.t = "float"
      [] OTHER -> value.t = "obj" /\ value.type = type

\* validate_cb of tally_type: getattr(TallyType, x)
validate_cb(value) ==
    IF value.t # "str" THEN Raised("TypeError")
    ELSE IF \E n \in DOMAIN TallyTypeNames : TallyTypeNames[n] = value.s
    THEN TallyTypeV(CHOOSE n \in DOMAIN TallyTypeNames : TallyTypeNames[n] = value.s)
    ELSE Raised("AttributeError")

RECURSIVE Option_validate(_, _)
RECURSIVE ValidateSubs(_, _, _, _)
RECURSIVE ValidateItems(_, _, _, _)
RECURSIVE validate(_, _)

\* Option.validate
Option_validate(opt, value) ==
    IF opt.validate_cb # "none" THEN validate_cb(value)
    ELSE IF value = NoneV
    THEN IF opt.required THEN Raised("RequiredError") ELSE NoneV
    ELSE IF Len(opt.sub_options) > 0
    THEN IF value.t # "dict" THEN Raised("AssertionError")
         ELSE LET sub_values == ValidateSubs(opt.sub_options, 1, value.d, EmptyDict)
              IN IF IsRaised(sub_values) THEN sub_values
                 ELSE Construct(opt.type, sub_values)
    ELSE IF opt.choices # {} /\ value \notin opt.choices THEN Raised("ChoiceError")
    ELSE IF ~isinstance(value, opt.type) THEN Raised("InvalidTypeError")
    ELSE value

\* the loop over sub_options: the first error ends it
ValidateSubs(opts, n, d, acc) ==
    IF n > Len(opts) THEN acc
    ELSE IF opts[n].name \notin DOMAIN d
    THEN IF opts[n].required THEN Raised("RequiredError")
         ELSE ValidateSubs(opts, n + 1, d, acc)
    ELSE LET r == validate(opts[n], d[opts[n].name])
         IN IF IsRaised(r) THEN r
            ELSE ValidateSubs(opts, n + 1, d, DictPut(acc, opts[n].name, r))

\* the loop over the items of a list
ValidateItems(opt, n, items, acc) ==
    IF n > Len(items) THEN ListV(acc)
    ELSE LET r == Option_validate(opt, items[n])
         IN IF IsRaised(r) THEN r
            ELSE ValidateItems(opt, n + 1, items, Append(acc, r))

\* ListOption.validate: len(value) comes before the Sequence check, so a value
\* without a length is a TypeError; a str is taken here as no list (the
\* inputs hold none)
ListOption_validate(opt, value) ==
    IF value = NoneV
    THEN IF opt.required THEN Raised("RequiredError") ELSE ListV(<< >>)
    ELSE IF value.t \notin {"list", "dict", "str"} THEN Raised("TypeError")
    ELSE IF value.t = "list" /\ Len(value.items) = 0
    THEN IF opt.required THEN Raised("RequiredError") ELSE ListV(<< >>)
    ELSE IF value.t # "list" THEN Raised("InvalidTypeError")
    ELSE IF opt.min_length # None /\ Len(value.items) < opt.min_length
    THEN Raised("InvalidLengthError")
    ELSE IF opt.max_length # None /\ Len(value.items) > opt.max_length
    THEN Raised("InvalidLengthError")
    ELSE ValidateItems(opt, 1, value.items, << >>)

\* opt.validate(value)
validate(opt, value) ==
    IF opt.list THEN ListOption_validate(opt, value) ELSE Option_validate(opt, value)

RECURSIVE Option_serialize(_, _)
RECURSIVE serialize(_, _)

\* Option.serialize
Option_serialize(opt, value) ==
    IF opt.serialize_cb # "none" THEN StrV(TallyTypeName(value.tt))
    ELSE IF Len(opt.sub_options) > 0
    THEN DictV([n \in {opt.sub_options[k].name : k \in 1..Len(opt.sub_options)} |->
                  LET sub == CHOOSE k \in 1..Len(opt.sub_options) :
                                 opt.sub_options[k].name = n
                  IN serialize(opt.sub_options[sub], value.attrs[n])])
    ELSE value

\* opt.serialize(value); ListOption.serialize for a list
serialize(opt, value) ==
    IF opt.list
    THEN ListV([k \in 1..Len(value.items) |-> Option_serialize(opt, value.items[k])])
    ELSE Option_serialize(opt, value)

\* BaseIO.serialize_options: an attribute that is None is left out
serialize_options(x) ==
    LET opts == get_init_options(x.type)
        kept == {k \in 1..Len(opts) : x.attrs[opts[k].name] # NoneV}
    IN [n \in {opts[k].name : k \in kept} |->
          LET k == CHOOSE j \in kept : opts[j].name = n
          IN serialize(opts[k], x.attrs[n])]

\* BaseIO.serialize
BaseIO_serialize(x) == [namespace |-> x.type, options |-> serialize_options(x)]

\* the loop of create_from_options: an option that is not in values is
\* passed over
RECURSIVE ValidateOptions(_, _, _, _)
ValidateOptions(opts, n, values, kw) ==
    IF n > Len(opts) THEN kw
    ELSE IF opts[n].name \notin DOMAIN values
    THEN ValidateOptions(opts, n + 1, values, kw)
    ELSE LET r == validate(opts[n], values[opts[n].name])
         IN IF IsRaised(r) THEN r
            ELSE ValidateOptions(opts, n + 1, values, DictPut(kw, opts[n].name, r))

\* BaseIO.create_from_options
create_from_options(cls, values) ==
    LET kw == ValidateOptions(get_init_options(cls), 1, values, EmptyDict)
    IN IF IsRaised(kw) THEN kw ELSE Construct(cls, kw)

\* the registry once the modules of the package are imported
subclass_map ==
    [ns \in {"input.gpio.GpioInput", "input.umd.UmdInput", "output.gpio.LED",
             "output.gpio.RGBLED"} |-> ns]

\* a lookup that falls back to a class for a namespace it does not know
get_class_for_namespace_default(map, namespace) ==
    [cls |-> "type",
     name |-> IF namespace \in DOMAIN map THEN map[namespace]
              ELSE "input.gpio.GpioInput"]

\* BaseIO.get_class_for_namespace
get_class_for_namespace(map, namespace) ==
    IF namespace \in DOMAIN map THEN [cls |-> "type", name |-> map[namespace]]
    ELSE Raised("KeyError")

\* BaseIO.deserialize
BaseIO_deserialize(map, data) ==
    LET subcls == get_class_for_namespace(map, data.namespace)
    IN IF IsRaised(subcls) THEN subcls
       ELSE create_from_options(subcls.name, data.options)

\* the tally configurations of the instances
SingleObjs ==
    {ObjV("SingleTallyConfig",
          [tally_index |-> ix, tally_type |-> TallyTypeV(tt), screen_index |-> scr,
           name |-> StrV(nm)]) :
        ix \in {NoneV, IntV(1)}, tt \in {rh_tally, txt_tally, BitOr(rh_tally, txt_tally)},
        scr \in {NoneV, IntV(1)}, nm \in {"", "cam"}}

PlainSingle ==
    ObjV("SingleTallyConfig",
         [tally_index |-> IntV(1), tally_type |-> TallyTypeV(rh_tally),
          screen_index |-> IntV(1), name |-> StrV("cam")])

MultiObjs ==
    {ObjV("MultiTallyConfig",
          [tallies |-> ListV(ts), screen_index |-> scr, allow_all |-> BoolV(all),
           name |-> StrV("")]) :
        ts \in {<< >>, <<PlainSingle>>}, scr \in {NoneV, IntV(1)}, all \in BOOLEAN}

\* instances of the registered classes
Instances ==
    {ObjV("input.gpio.GpioInput", [config |-> c, pin |-> IntV(4)]) : c \in SingleObjs}
    \cup {ObjV("output.gpio.LED",
               [config |-> PlainSingle, pin |-> IntV(4), active_high |-> BoolV(ah),
                brightness_scale |-> bs]) :
            ah \in BOOLEAN, bs \in {FloatV(10), FloatV(5)}}
    \cup {ObjV("output.gpio.RGBLED",
               [config |-> PlainSingle,
                pins |-> ListV(<<IntV(17), IntV(27), IntV(22)>>),
                active_high |-> BoolV(ah), brightness_scale |-> FloatV(10)]) :
            ah \in BOOLEAN}
    \cup {ObjV("input.umd.UmdInput",
               [config |-> c, hostaddr |-> StrV("0.0.0.0"), hostport |-> IntV(p)]) :
            c \in MultiObjs, p \in {60000, 60001}}

\* x.serialize()
Serialize ==
    /\ ser.phase = "object"
    /\ ser' = [ser EXCEPT !.phase = "serialized", !.data = BaseIO_serialize(ser.value)]
    /\ UNCHANGED <<binding, led, mgr, cq, mtc, reg, bio>>

\* BaseIO.deserialize(data)
Deserialize ==
    /\ ser.phase = "serialized"
    /\ ser' = [ser EXCEPT !.phase = "restored",
                          !.back = BaseIO_deserialize(subclass_map, ser.data)]
    /\ UNCHANGED <<binding, led, mgr, cq, mtc, reg, bio>>

InitRoundTrip ==
    /\ IdleButExt
    /\ reg = NoReg
    /\ bio = NoObj
    /\ \E x \in Instances : ser = [NoSer EXCEPT !.phase = "object", !.value = x]

NextRoundTrip == Serialize \/ Deserialize

SpecRoundTrip == InitRoundTrip /\ [][NextRoundTrip]_vars

\* --------------------------------------------- validation of option values
\* a key that the dict does not have
Absent == [t |-> "absent"]

\* the dict of the keys of f that are present
MkValues(f) == [n \in {k \in DOMAIN f : f[k] # Absent} |-> f[n]]

\* serialized tally configurations, well formed or not
ConfigInputs ==
    {Absent, NoneV}
    \cup {DictV(MkValues([tally_index |-> ix, tally_type |-> tt])) :
            ix \in {Absent, NoneV, IntV(1), StrV("1")},
            tt \in {Absent, NoneV, StrV("rh_tally"), StrV("bogus")}}

PinInputs == {Absent, NoneV, IntV(4), StrV("4")}

PinsInputs ==
    {Absent, ListV(<< >>), ListV(<<IntV(17), IntV(27)>>),
     ListV(<<IntV(17), IntV(27), IntV(22)>>),
     ListV(<<IntV(17), StrV("27"), IntV(22)>>)}

\* the (class, values) pairs handed to create_from_options
OptionInputs ==
    {[cls |-> "input.gpio.GpioInput", values |-> MkValues([config |-> c, pin |-> p])] :
        c \in ConfigInputs, p \in PinInputs}
    \cup {[cls |-> "output.gpio.RGBLED",
           values |-> MkValues([config |-> c, pins |-> p])] :
            c \in ConfigInputs, p \in PinsInputs}

\* cls.create_from_options(values)
CreateFromOptions ==
    /\ ser.phase = "options"
    /\ ser' = [ser EXCEPT !.phase = "created",
                          !.back = create_from_options(ser.value.cls, ser.value.values)]
    /\ UNCHANGED <<binding, led, mgr, cq, mtc, reg, bio>>

InitValidate ==
    /\ IdleButExt
    /\ reg = NoReg
    /\ bio = NoObj
    /\ \E v \in OptionInputs : ser = [NoSer EXCEPT !.phase = "options", !.value = v]

NextValidate == CreateFromOptions

SpecValidate == InitValidate /\ [][NextValidate]_vars

\* ------------------------------------------------ the namespace registry
\* the number of classes declared below BaseInput
MaxClasses == 3

\* the classes, in the order of their declaration
ClassNames == <<"Class1", "Class2", "Class3", "Class4", "Class5">>

\* a namespace is the sequence of the parts between its dots; << >> is None
OwnNamespaces == {<< >>, <<"gpio">>, <<"LED">>, <<"gpio", "LED">>}

\* hasattr(basecls, 'namespace') of the first class of the mro after cls:
\* the attribute is inherited, BaseIO has none
base_namespace(classes, base) ==
    IF base = "BaseIO" THEN << >> ELSE classes[base].namespace

\* f'{basecls.namespace}.{namespace}', or namespace below BaseIO
cls_namespace(classes, base, namespace) ==
    base_namespace(classes, base) \o namespace

\* the registration of a final class that overwrites
register_overwrite(map, ns, cls) == [raised |-> "none", map |-> DictPut(map, ns, cls)]

\* assert cls_namespace not in __subclass_map; __subclass_map[ns] = cls
register(map, ns, cls) ==
    IF ns \in DOMAIN map THEN [raised |-> "AssertionError", map |-> map]
    ELSE [raised |-> "none", map |-> DictPut(map, ns, cls)]

\* class cls(base, namespace=..., final=...): __init_subclass__
DeclareClass ==
    /\ reg.phase = "classes"
    /\ Cardinality(DOMAIN reg.classes) <= MaxClasses
    /\ \E base \in DOMAIN reg.classes, namespace \in OwnNamespaces, final \in BOOLEAN :
          LET cls == ClassNames[Cardinality(DOMAIN reg.classes)]
              ns == cls_namespace(reg.classes, base, namespace)
              decl == [base |-> base, own |-> namespace, final |-> final,
                       namespace |-> IF namespace = << >>
                                     THEN base_namespace(reg.classes, base) ELSE ns]
              r == IF namespace # << >> /\ final
                   THEN register(reg.map, ns, cls)
                   ELSE [raised |-> "none", map |-> reg.map]
          IN IF r.raised # "none"
             THEN reg' = [reg EXCEPT !.last = [res |-> r.raised, ns |-> ns,
                                               own |-> namespace, final |-> final]]
             ELSE reg' = [reg EXCEPT !.classes = DictPut(@, cls, decl), !.map = r.map,
                                     !.last = [res |-> "declared", ns |-> ns,
                                               own |-> namespace, final |-> final]]
    /\ UNCHANGED <<binding, led, mgr, cq, mtc, ser, bio>>

\* baseio.py is imported: BaseInput is declared with the namespace "input"
InitRegistry ==
    /\ IdleButExt
    /\ ser = NoSer
    /\ bio = NoObj
    /\ reg = [phase |-> "classes",
              classes |-> DictPut(EmptyDict, "BaseInput",
                                  [base |-> "BaseIO", own |-> <<"input">>,
                                   final |-> FALSE, namespace |-> <<"input">>]),
              map |-> EmptyDict, last |-> NoDecl]

NextRegistry == DeclareClass

SpecRegistry == InitRegistry /\ [][NextRegistry]_vars

\* ---------------------------------------------- IOContainer.deserialize
\* the loop of IOContainer.deserialize over data.items(): the first record
\* that raises ends it
RECURSIVE IOContainer_deserialize(_, _, _, _)
IOContainer_deserialize(map, data, n, acc) ==
    IF n > Len(data) THEN acc
    ELSE LET obj == BaseIO_deserialize(map, data[n].val)
         IN IF IsRaised(obj) THEN [acc EXCEPT !.raised = obj.error]
            ELSE IOContainer_deserialize(map, data, n + 1,
                    [acc EXCEPT !.objects = DictPut(@, data[n].key, obj),
                                !.emitted = Append(@, <<"object_added", data[n].key>>)])

\* records of a config file: the namespace is registered or not, the options
\* are complete or lack the pin
ConfigRecords ==
    {[namespace |-> ns, options |-> MkValues([config |-> c, pin |-> p])] :
        ns \in {"input.gpio.GpioInput", "output.gpio.LED", "input.gpio.Button"},
        c \in {DictV([tally_index |-> IntV(1), tally_type |-> StrV("rh_tally")])},
        p \in {Absent, IntV(4)}}

ConfigKeys == {"gpio:000", "gpio:001"}

\* the items of the dict read from the config file, in its order
ConfigData ==
    {<<[key |-> k, val |-> r]>> : k \in ConfigKeys, r \in ConfigRecords}
    \cup {d \in {<<[key |-> k1, val |-> r1], [key |-> k2, val |-> r2]>> :
                    k1 \in ConfigKeys, k2 \in ConfigKeys,
                    r1 \in ConfigRecords, r2 \in ConfigRecords} :
            d[1].key # d[2].key}

\* await container.deserialize(data), on a container that is not running
ContainerDeserialize ==
    /\ ser.phase = "config"
    /\ ser' = [ser EXCEPT !.phase = "loaded",
                  !.back = IOContainer_deserialize(subclass_map, ser.value, 1,
                              [objects |-> EmptyDict, emitted |-> << >>,
                               raised |-> "none"])]
    /\ UNCHANGED <<binding, led, mgr, cq, mtc, reg, bio>>

InitContainer ==
    /\ IdleButExt
    /\ reg = NoReg
    /\ bio = NoObj
    /\ \E d \in ConfigData : ser = [NoSer EXCEPT !.phase = "config", !.value = d]

NextContainer == ContainerDeserialize

SpecContainer == InitContainer /\ [][NextContainer]_vars

\* ------------------------------------- outputs: on_receiver_tally_change
\* what an output writes to: the one device of an Indicator, or the
\* (tally, tally type) indicators of the UmdSender
Device == <<NoKey, "device">>

Slots == {Device} \cup {<<k, pr>> : k \in Keys, pr \in AllProps}

\* the properties a Tally reports as changed
ChangedProps == AllProps \cup {"brightness"}

\* get_merged_tally(tally, tally_type) for the Tally of input i under key
MergedFor(i, key, tt) ==
    BitOr(TallyGetItem(tallies[i][key], tt), get_merged_tally(key, tt))

\* the call returned before get_merged_tally
NoCall(props) == [props |-> props, key |-> NoKey, merges |-> 0, writes |-> {}]

\* rgbmatrix5x5.Indicator.on_receiver_tally_change: what the call computes
\* and which colours it writes
Indicator_on_receiver_tally_change(o, i, key, props) ==
    IF ~o.running \/ ~tally_matches(config, key, all_tally) THEN NoCall(props)
    ELSE LET color == MergedFor(i, key, config.tally_type)
         IN [props |-> props, key |-> key, merges |-> 1,
             writes |-> IF color # o.written[Device]
                        THEN {[slot |-> Device, color |-> color,
                               before |-> o.written[Device]]}
                        ELSE {}]

\* UmdOutput.on_receiver_tally_change
UmdOutput_on_receiver_tally_change(o, i, key, props) ==
    IF ~o.running \/ ~tally_matches(config, key, all_tally) THEN NoCall(props)
    ELSE LET matched == {pr \in AllProps \cap props :
                            tally_matches(config, key, PropType(pr))}
         IN [props |-> props, key |-> key, merges |-> Cardinality(matched),
             writes |-> {[slot |-> <<key, pr>>, color |-> MergedFor(i, key, PropType(pr)),
                          before |-> o.written[<<key, pr>>]] : pr \in matched}]

\* the handler of the output's class
on_receiver_tally_change(o, i, key, props) ==
    IF o.cls = "output.rgbmatrix5x5.Indicator"
    THEN Indicator_on_receiver_tally_change(o, i, key, props)
    ELSE UmdOutput_on_receiver_tally_change(o, i, key, props)

\* the output after the call: the colours written are the last ones written
AfterCall(o, call) ==
    [o EXCEPT !.last = call,
              !.written = [sl \in Slots |->
                  IF \E w \in call.writes : w.slot = sl
                  THEN (CHOOSE w \in call.writes : w.slot = sl).color
                  ELSE o.written[sl]]]

\* bind_to_tally subscribes the handler and calls it with all three tally
\* types as props_changed
OutGather(key) ==
    /\ GatherStep(key)
    /\ bio' = AfterCall(bio, on_receiver_tally_change(bio, holder.inp, key, AllProps))
    /\ UNCHANGED <<rt, led, mgr, cq, mtc, ser, reg>>

\* a bound tally changes colour: on_update(tally, {prop}) is dispatched
OutSetColor(i, key, prop, color) ==
    /\ SetTally(i, key, prop, color)
    /\ bio' = [bio EXCEPT !.pending =
                 IF <<i, key>> \in tally_subs THEN @ \cup {<<i, key, prop>>} ELSE @]
    /\ UNCHANGED <<rt, led, mgr, cq, mtc, ser, reg>>

\* a bound tally changes brightness: on_update(tally, {'brightness'})
OutSetBrightness(i, key) ==
    /\ <<i, key>> \in tally_subs
    /\ key \in DOMAIN tallies[i]
    /\ <<i, key, "brightness">> \notin bio.pending
    /\ bio' = [bio EXCEPT !.pending = @ \cup {<<i, key, "brightness">>}]
    /\ UNCHANGED <<binding, led, mgr, cq, mtc, ser, reg>>

\* the event loop runs the handler for a dispatched on_update
OutUpdate(i, key, prop) ==
    /\ <<i, key, prop>> \in bio.pending
    /\ bio' = [AfterCall(bio, on_receiver_tally_change(bio, i, key, {prop}))
                 EXCEPT !.pending = @ \ {<<i, key, prop>>}]
    /\ UNCHANGED <<binding, led, mgr, cq, mtc, ser, reg>>

\* an Indicator (SingleTallyConfig) or a UmdOutput (MultiTallyConfig), open or
\* not, that has written nothing yet; two GpioInputs as in test_color_merge
InitOutput ==
    /\ CoreInit({[in1 |-> SingleTallyConfig(1, 1, rh_tally, RED),
                  in2 |-> SingleTallyConfig(1, 1, rh_tally, GREEN)]})
    /\ led = NoLed
    /\ mgr = NoManager
    /\ cq = NoQuery
    /\ mtc = NoMulti
    /\ ser = NoSer
    /\ reg = NoReg
    /\ \E running \in BOOLEAN :
          bio = [phase |-> "output",
                 cls |-> IF config.kind = "single" THEN "output.rgbmatrix5x5.Indicator"
                         ELSE "output.umd.UmdOutput",
                 running |-> running, written |-> [sl \in Slots |-> None],
                 pending |-> {}, last |-> NoCall({})]

\* the inputs are bound one call at a time while their tallies appear and
\* change colour and brightness
NextOutput ==
    \/ \E i \in Inputs : LockFree /\ BindStart(i)
    \/ \E key \in Keys : OutGather(key)
    \/ BindFinish
    \/ \E i \in Inputs, key \in Keys : AddTally(i, key)
    \/ \E i \in Inputs, key \in Keys, prop \in AllProps, color \in Colors :
          OutSetColor(i, key, prop, color)
    \/ \E i \in Inputs, key \in Keys : OutSetBrightness(i, key)
    \/ \E i \in Inputs, key \in Keys, prop \in ChangedProps : OutUpdate(i, key, prop)

SpecOutput == InitOutput /\ [][NextOutput]_vars

\* ------------------------------------------------- BaseIO: id and running
\* the number of times the model lets a device be opened
MaxOpens == 2

IOClasses ==
    {"input.gpio.GpioInput", "input.umd.UmdInput", "output.gpio.LED",
     "output.umd.UmdOutput", "output.rgbmatrix5x5.Indicator",
     "output.rgbmatrix5x5.Matrix"}

IdValues == {NoneV, StrV("gpio:000"), StrV("gpio:001")}

\* a setter that assigns whatever it is given
set_id_overwrite(id, value) == [id |-> value, raised |-> "none"]

\* the setter of BaseIO.id
set_id(id, value) ==
    IF value = id THEN [id |-> id, raised |-> "none"]
    ELSE IF id # NoneV THEN [id |-> id, raised |-> "ValueError"]
    ELSE [id |-> value, raised |-> "none"]

\* open() of the class: nothing when running, else the device is opened and
\* running is set
open(o) ==
    IF o.running THEN o
    ELSE [o EXCEPT !.running = TRUE, !.device = "open", !.opens = @ + 1]

\* close() of the class: nothing when not running; UmdInput and UmdOutput
\* close the receiver or sender and leave running as it is
close(o) ==
    IF ~o.running THEN o
    ELSE IF o.cls \in {"input.umd.UmdInput", "output.umd.UmdOutput"}
    THEN [o EXCEPT !.device = "closed"]
    ELSE [o EXCEPT !.running = FALSE, !.device = "closed"]

\* obj.id = value
SetId(value) ==
    /\ bio.phase = "object"
    /\ LET r == set_id(bio.id, value)
       IN bio' = [bio EXCEPT !.id = r.id,
                             !.last = [op |-> "set_id", value |-> value,
                                       res |-> r.raised]]
    /\ UNCHANGED <<binding, led, mgr, cq, mtc, ser, reg>>

\* await obj.open()
Open ==
    /\ bio.phase = "object"
    /\ bio.opens < MaxOpens
    /\ bio' = [open(bio) EXCEPT !.between = TRUE,
                                !.last = [op |-> "open", value |-> NoneV,
                                          res |-> "none"]]
    /\ UNCHANGED <<binding, led, mgr, cq, mtc, ser, reg>>

\* await obj.close()
Close ==
    /\ bio.phase = "object"
    /\ bio' = [close(bio) EXCEPT !.between = FALSE,
                                 !.last = [op |-> "close", value |-> NoneV,
                                           res |-> "none"]]
    /\ UNCHANGED <<binding, led, mgr, cq, mtc, ser, reg>>

\* BaseIO.__init__: no id, not running
InitObject ==
    /\ IdleButExt
    /\ ser = NoSer
    /\ reg = NoReg
    /\ \E cls \in IOClasses :
          bio = [phase |-> "object", cls |-> cls, id |-> NoneV, running |-> FALSE,
                 device |-> "closed", opens |-> 0, between |-> FALSE,
                 last |-> [op |-> "init", value |-> NoneV, res |-> "none"]]

NextObject == (\E value \in IdValues : SetId(value)) \/ Open \/ Close

SpecObject == InitObject /\ [][NextObject]_vars

\* ------------------------------------------------------ ReadonlyOverride
\* the number of override blocks a task runs
MaxBlocks == 2

Tasks == {"task1", "task2"}

NoTask == "none"

\* a Lock that nobody holds can be taken
LockTaken(m, lock) == m[lock] # NoTask

\* ReadonlyOverride.acquire up to `await self._lock.acquire()`: state_lock is
\* taken and kept
AcquireStart(t) ==
    /\ mgr.pc[t] = "idle"
    /\ mgr.blocks[t] < MaxBlocks
    /\ ~LockTaken(mgr, "state_lock")
    /\ mgr' = [mgr EXCEPT !.pc[t] = "acquire", !.state_lock = t]
    /\ UNCHANGED <<binding, led, cq, mtc, ext>>

\* _lock.acquire() returns: the event is cleared, override is set and
\* state_lock is released
AcquireEnd(t) ==
    /\ mgr.pc[t] = "acquire"
    /\ ~LockTaken(mgr, "lock")
    /\ mgr' = [mgr EXCEPT !.pc[t] = "block", !.lock = t, !.evt = FALSE,
                          !.override = TRUE, !.state_lock = NoTask]
    /\ UNCHANGED <<binding, led, cq, mtc, ext>>

\* inside the block: await items.add(obj) emits 'update', then the task
\* awaits config_written.wait()
BlockChange(t) ==
    /\ mgr.pc[t] = "block"
    /\ mgr' = [mgr EXCEPT !.pc[t] = "wait", !.updates = @ + 1]
    /\ UNCHANGED <<binding, led, cq, mtc, ext>>

\* config_write_evt is set: wait() returns and __aexit__ calls release(),
\* which needs state_lock; it does not suspend while it holds it
Release(t) ==
    /\ mgr.pc[t] = "wait"
    /\ mgr.evt
    /\ ~LockTaken(mgr, "state_lock")
    /\ mgr' = [mgr EXCEPT !.pc[t] = "idle", !.override = FALSE, !.lock = NoTask,
                          !.blocks[t] = @ + 1]
    /\ UNCHANGED <<binding, led, cq, mtc, ext>>

\* Manager.on_io_update for a dispatched 'update': under state_lock it
\* returns when readonly and not overridden, else write_config writes under
\* state_lock and sets the event
UpdateCallback ==
    /\ mgr.updates > 0
    /\ ~LockTaken(mgr, "state_lock")
    /\ mgr' = [mgr EXCEPT !.updates = @ - 1,
                          !.evt = IF mgr.readonly /\ ~mgr.override THEN @ ELSE TRUE,
                          !.written = IF mgr.readonly /\ ~mgr.override THEN @ ELSE TRUE]
    /\ UNCHANGED <<binding, led, cq, mtc, ext>>

\* a Manager, readonly or not, and two tasks that have not started
InitOverride ==
    /\ CoreInit(InConfigs)
    /\ config.kind = "single" /\ in_config["in1"].kind = "single"
    /\ led = NoLed
    /\ cq = NoQuery
    /\ mtc = NoMulti
    /\ ExtIdle
    /\ \E ro \in BOOLEAN :
          mgr = [readonly |-> ro, override |-> FALSE, evt |-> FALSE,
                 state_lock |-> NoTask, lock |-> NoTask, updates |-> 0,
                 written |-> FALSE,
                 pc |-> [t \in Tasks |-> "idle"], blocks |-> [t \in Tasks |-> 0]]

NextOverride ==
    \/ \E t \in Tasks : AcquireStart(t)
    \/ \E t \in Tasks : AcquireEnd(t)
    \/ \E t \in Tasks : BlockChange(t)
    \/ \E t \in Tasks : Release(t)
    \/ UpdateCallback

SpecOverride == InitOverride /\ [][NextOverride]_vars

\* the event loop runs every coroutine that can go on
SpecOverrideFair ==
    /\ SpecOverride
    /\ \A t \in Tasks : WF_vars(AcquireEnd(t)) /\ WF_vars(BlockChange(t))
                        /\ WF_vars(Release(t))
    /\ WF_vars(UpdateCallback)

\* -------------------------------------------------------------- GpioInput
\* the configs of a GpioInput: one tally type each
GpioConfigs ==
    { SingleTallyConfig(scr, ix, tt, mask) :
        scr \in {None, 1, 2}, ix \in {None, 1, 2},
        tt \in {rh_tally, txt_tally, lh_tally}, mask \in {RED, GREEN, AMBER} }

\* SingleTallyConfig.create_screen: the index of the Screen
create_screen(c) == IF c.screen_index = None THEN Broadcast ELSE c.screen_index

\* SingleTallyConfig.create_tally: the id (screen index, tally index) of the
\* Tally; add_tally is given screen_index
create_tally(c) ==
    <<create_screen(c),
      IF c.tally_index = None THEN Broadcast ELSE c.screen_index>>

\* GpioInput._set_tally_state
set_tally_state(g, state) ==
    [g EXCEPT !.color = IF state THEN g.config.color_mask ELSE OFF]

\* GpioInput.open
GpioOpen ==
    /\ bio.phase = "gpio"
    /\ bio' = IF bio.running THEN [bio EXCEPT !.last = "open"]
              ELSE LET g == [bio EXCEPT !.running = TRUE,
                                        !.screen = create_screen(bio.config),
                                        !.tally = create_tally(bio.config),
                                        !.color = OFF,
                                        !.last = "open"]
                   IN IF bio.pressed THEN set_tally_state(g, TRUE) ELSE g
    /\ UNCHANGED <<binding, led, mgr, cq, mtc, ser, reg>>

\* GpioInput.close
GpioClose ==
    /\ bio.phase = "gpio"
    /\ bio' = IF ~bio.running THEN [bio EXCEPT !.last = "close"]
              ELSE [bio EXCEPT !.running = FALSE, !.screen = None,
                               !.tally = NoKey, !.last = "close"]
    /\ UNCHANGED <<binding, led, mgr, cq, mtc, ser, reg>>

\* the button goes down: GpioInput._on_button_pressed
ButtonPressed ==
    /\ bio.phase = "gpio"
    /\ ~bio.pressed
    /\ bio' = IF bio.running
              THEN [set_tally_state(bio, TRUE) EXCEPT !.pressed = TRUE, !.last = "press"]
              ELSE [bio EXCEPT !.pressed = TRUE]
    /\ UNCHANGED <<binding, led, mgr, cq, mtc, ser, reg>>

\* the button goes up: GpioInput._on_button_released
ButtonReleased ==
    /\ bio.phase = "gpio"
    /\ bio.pressed
    /\ bio' = IF bio.running
              THEN [set_tally_state(bio, TRUE) EXCEPT !.pressed = FALSE, !.last = "release"]
              ELSE [bio EXCEPT !.pressed = FALSE]
    /\ UNCHANGED <<binding, led, mgr, cq, mtc, ser, reg>>

\* GpioInput.get_tally(config.tally_key)
GpioGetTally ==
    /\ bio.phase = "gpio"
    /\ bio' = [bio EXCEPT !.got = IF bio.running /\ tally_key(bio.config) = bio.tally
                                  THEN "tally" ELSE "None",
                          !.last = "get_tally"]
    /\ UNCHANGED <<binding, led, mgr, cq, mtc, ser, reg>>

\* GpioInput.__init__ with any config, the button up or down
InitGpio ==
    /\ IdleButExt
    /\ ser = NoSer
    /\ reg = NoReg
    /\ \E c \in GpioConfigs, down \in BOOLEAN :
          bio = [phase |-> "gpio", config |-> c, running |-> FALSE, screen |-> None,
                 tally |-> NoKey, color |-> OFF, pressed |-> down, got |-> "none",
                 last |-> "init"]

NextGpio == GpioOpen \/ GpioClose \/ ButtonPressed \/ ButtonReleased \/ GpioGetTally

SpecGpio == InitGpio /\ [][NextGpio]_vars

\* ------------------------------------------------- binding to a GpioInput
\* a GpioInput that was not opened has no screen and no tally
Unopened(i) == in_config[i].kind = "single" /\ tallies[i] = EmptyDict

\* GpioInput.open seen from the Output: the tally is created and
\* on_tally_added is emitted
GpioInputOpen(i) ==
    /\ Unopened(i)
    /\ tallies' = [tallies EXCEPT ![i] = DictPut(@, create_tally(in_config[i]), NewTally)]
    /\ added_q' = IF i \in subscribed
                  THEN added_q \cup {<<i, create_tally(in_config[i])>>}
                  ELSE added_q
    /\ UNCHANGED <<config, in_config, bound_inputs, bound_input_tally_keys,
                   holder, waiters, subscribed, tally_subs, pushes, received,
                   last_op, merged, rt, aux>>

\* GpioInput.close seen from the Output: the input drops its screen and tally
GpioInputClose(i) ==
    /\ in_config[i].kind = "single"
    /\ ~Unopened(i)
    /\ \A key \in Keys : pushes[<<i, key>>] < MaxOpens
    /\ tallies' = [tallies EXCEPT ![i] = EmptyDict]
    /\ UNCHANGED <<config, in_config, bound_inputs, bound_input_tally_keys,
                   holder, waiters, added_q, subscribed, tally_subs, pushes,
                   received, last_op, merged, rt, aux>>

\* bind_to_input(i) on a GpioInput: get_all_tallies of an unopened one yields
\* None, on which tally_matches raises after the input was stored
GpioBind(i) ==
    /\ AlreadyBound(i) \/ LockFree
    /\ IF ~AlreadyBound(i) /\ Unopened(i)
       THEN /\ bound_inputs' = bound_inputs \cup {i}
            /\ Finish("bind", i, "AttributeError", FALSE)
            /\ UNCHANGED <<config, in_config, tallies, bound_input_tally_keys, holder,
                           waiters, added_q, subscribed, tally_subs, pushes,
                           received, merged>>
       ELSE BindCall(i)
    /\ UNCHANGED <<rt, aux>>

InitBindGpio == InitWith(InConfigs)

NextBindGpio ==
    \/ \E i \in Inputs : GpioInputOpen(i)
    \/ \E i \in Inputs : GpioInputClose(i)
    \/ \E i \in Inputs : GpioBind(i)
    \/ \E key \in Keys : BindGather(key)
    \/ BindFinish
    \/ \E i \in Inputs, key \in Keys : AddedStart(i, key)
    \/ AddedResume
    \/ \E i \in Inputs : LockFree /\ UnbindStart(i)

SpecBindGpio == InitBindGpio /\ [][NextBindGpio]_vars

\* ----------------------------------------------------------------- Matrix
\* rows and columns of the display
GridSize == 5

\* the pixel changes of tally updates that may wait in update_queue
MaxQueued == 2

\* tally_type_map.get() found nothing; also the item that stops update_loop
NonePixel == NoKey

\* the members of TallyType.all(), in order
TallyType_all == <<rh_tally, txt_tally, lh_tally>>

\* the configs of the Matrix: a screen or every screen, rows from tally 1 on
MatrixConfigs ==
    { SingleTallyConfig(scr, 1, all_tally, AMBER) : scr \in {1, None} }

\* the tallies the inputs may announce
MatrixTallyIds == {<<1, 1>>, <<1, Broadcast>>, <<2, 1>>}

MatrixProps == {{"rh_tally"}, {"txt_tally"}, {"rh_tally", "txt_tally"}, {"brightness"}}

\* Matrix.build_multi_config: the SingleTallyConfig of row i and column j
RowConfig(c, i, j) ==
    SingleTallyConfig(c.screen_index, c.tally_index + i, TallyType_all[j + 1], AMBER)

\* Matrix.build_multi_config: multi_config.tallies
build_multi_config(c) ==
    [n \in 1..(GridSize * 3) |-> RowConfig(c, (n - 1) \div 3, (n - 1) % 3)]

\* Matrix.tally_matches
Matrix_tally_matches(c, id) ==
    MatchFrom(build_multi_config(c), 1, id, all_tally) # NoMatch

\* tally_type_map.get(tally.id + (ttype,)): the pixel (j, i), or None
tally_type_map_get(c, id, ttype) ==
    LET hits == {<<j, i>> \in (0..2) \X (0..(GridSize - 1)) :
                    /\ tally_key(RowConfig(c, i, j)) = id
                    /\ TallyType_all[j + 1] = ttype}
    IN IF hits = {} THEN NonePixel ELSE CHOOSE px \in hits : TRUE

\* sorted(self.colors.keys()) of the 25 pixels
SortedKeys ==
    [n \in 1..(GridSize * GridSize) |-> <<(n - 1) \div GridSize, (n - 1) % GridSize>>]

\* the orders in which the members of a set can be put on the queue
Orders(S) == {q \in [1..Cardinality(S) -> S] : \A x \in S : \E n \in DOMAIN q : q[n] = x}

\* the items of the queue that open did not put there
Waiting(q) ==
    IF \E k \in 0..(Len(q) - Len(SortedKeys)) :
          SubSeq(q, k + 1, k + Len(SortedKeys)) = SortedKeys
    THEN Len(q) - Len(SortedKeys)
    ELSE Len(q)

\* Matrix.on_receiver_tally_change for a bound tally, color being what
\* get_merged_tally returns for the changed types
Matrix_on_receiver_tally_change(id, props, color) ==
    LET pixels == {tally_type_map_get(bio.config, id, PropType(prop)) :
                      prop \in props \cap AllProps}
        changed == {px \in pixels : DictGet(bio.colors, px, None) # color}
    IN /\ bio.phase = "matrix"
       /\ Matrix_tally_matches(bio.config, id)
       /\ Waiting(bio.queue) + Cardinality(changed) <= MaxQueued
       /\ \E order \in Orders(changed) :
             bio' = [bio EXCEPT
                       !.colors = [px \in DOMAIN bio.colors \cup changed |->
                                      IF px \in changed THEN color ELSE bio.colors[px]],
                       !.queue = bio.queue \o order,
                       !.last = IF NonePixel \in pixels THEN "no pixel" ELSE "pixel"]
       /\ UNCHANGED <<binding, led, mgr, cq, mtc, ser, reg>>

\* Matrix.open: every key is queued, then the update task is created;
\* sorting the keys fails once None is one of them
MatrixOpen ==
    /\ bio.phase = "matrix"
    /\ ~bio.closing
    /\ Len(bio.queue) <= MaxQueued
    /\ bio' = IF bio.running THEN [bio EXCEPT !.last = "open"]
              ELSE IF NonePixel \in DOMAIN bio.colors
              THEN [bio EXCEPT !.last = "TypeError"]
              ELSE [bio EXCEPT !.running = TRUE, !.task = "created",
                               !.queue = bio.queue \o SortedKeys, !.last = "open"]
    /\ UNCHANGED <<binding, led, mgr, cq, mtc, ser, reg>>

\* the position of the first None in the queue, or 0
FirstNone(q) ==
    IF \E n \in DOMAIN q : q[n] = NonePixel
    THEN CHOOSE n \in DOMAIN q : q[n] = NonePixel /\ \A m \in 1..(n - 1) : q[m] # NonePixel
    ELSE 0

\* Matrix.update_loop runs until it suspends or returns: a task that starts
\* when running is False returns at once; otherwise it writes pixels until
\* the queue is empty and waits in get(), returns at None, and returns after
\* one item once running is False
MatrixUpdateLoop ==
    /\ bio.phase = "matrix"
    /\ bio.task = "created" \/ (bio.task = "waiting" /\ bio.queue # << >>)
    /\ bio' = IF ~bio.running
              THEN IF bio.task = "created" THEN [bio EXCEPT !.task = "done"]
                   ELSE [bio EXCEPT !.task = "done", !.queue = Tail(bio.queue)]
              ELSE IF FirstNone(bio.queue) = 0
              THEN [bio EXCEPT !.task = "waiting", !.queue = << >>]
              ELSE [bio EXCEPT !.task = "done",
                               !.queue = SubSeq(bio.queue, FirstNone(bio.queue) + 1,
                                                Len(bio.queue))]
    /\ UNCHANGED <<binding, led, mgr, cq, mtc, ser, reg>>

\* Matrix.close up to `await t`: running is False, None is queued
MatrixClose ==
    /\ bio.phase = "matrix"
    /\ ~bio.closing
    /\ bio' = IF ~bio.running THEN [bio EXCEPT !.last = "close"]
              ELSE [bio EXCEPT !.running = FALSE, !.closing = TRUE,
                               !.queue = Append(bio.queue, NonePixel)]
    /\ UNCHANGED <<binding, led, mgr, cq, mtc, ser, reg>>

\* the update task is finished: close returns
MatrixClosed ==
    /\ bio.phase = "matrix"
    /\ bio.closing
    /\ bio.task = "done"
    /\ bio' = [bio EXCEPT !.closing = FALSE, !.task = "none", !.last = "close"]
    /\ UNCHANGED <<binding, led, mgr, cq, mtc, ser, reg>>

\* Matrix.__init__: every pixel OFF, an empty queue, no update task
InitMatrix ==
    /\ IdleButExt
    /\ ser = NoSer
    /\ reg = NoReg
    /\ \E c \in MatrixConfigs :
          bio = [phase |-> "matrix", config |-> c, running |-> FALSE, closing |-> FALSE,
                 colors |-> [px \in {SortedKeys[n] : n \in DOMAIN SortedKeys} |-> OFF],
                 queue |-> << >>, task |-> "none", last |-> "init"]

NextMatrix ==
    \/ \E id \in MatrixTallyIds, props \in MatrixProps, color \in {OFF, RED} :
          Matrix_on_receiver_tally_change(id, props, color)
    \/ MatrixOpen
    \/ MatrixUpdateLoop
    \/ MatrixClose
    \/ MatrixClosed

SpecMatrix == InitMatrix /\ [][NextMatrix]_vars

\* ------------------------------------------------------------- properties
Quiescent == holder = NoHolder /\ waiters = << >> /\ added_q = {}

\* unbind_from_input(i) runs its body and returns or raises in this step
UnbindReturns(i) ==
    \/ LockFree /\ UnbindStart(i)
    \/ Woken("unbind") /\ Head(waiters).inp = i /\ UnbindResume

InSomeTallyKeys(i) == \E k \in DOMAIN bound_input_tally_keys : i \in bound_input_tally_keys[k]

\* C1: no bind_to_input call fails its assertion, however the calls for the
\* same Input interleave (bound_inputs, a dict keyed by id, then holds one
\* entry for the Input)
C1_BindNeverRaises ==
    ~(last_op.kind = "bind" /\ last_op.res = "AssertionError")

\* C2: every input id in a set of bound_input_tally_keys is a key of
\* bound_inputs, so get_all_input_tallies never looks up a missing input
C2_TallyKeysReferenceBoundInputs ==
    /\ \A k \in DOMAIN bound_input_tally_keys :
          bound_input_tally_keys[k] \subseteq bound_inputs
    /\ \A k \in Keys : ~get_all_input_tallies_raises(k)

\* an unbind_from_input has run while input ids were recorded under a tally key
C2_Witness ==
    /\ last_op.kind = "unbind"
    /\ \E i \in Inputs : InSomeTallyKeys(i)

\* C3: after unbind_from_input(x) on an Output bound to x, x is in neither
\* bound_inputs nor any set of bound_input_tally_keys
C3_UnbindRemovesInput ==
    [][\A i \in Inputs :
         (UnbindReturns(i) /\ i \in bound_inputs)
            => (i \notin bound_inputs' /\ ~InSomeTallyKeys(i)')]_vars

\* C4: once bind_to_input(I) has returned and nothing is pending any more,
\* every tally of I that matches the Output's config is bound and was
\* pushed to on_receiver_tally_change, whenever the tally appeared
C4_MatchingTalliesGetBound ==
    Quiescent =>
        \A i \in bound_inputs \cap subscribed : \A k \in MatchingTallies(i) :
            i \in input_ids(k) /\ pushes[<<i, k>>] >= 1

\* the colours of a set merged bit by bit
ColorUnion(cs) ==
    (IF \E c \in cs : Bit(c, 0) = 1 THEN 1 ELSE 0)
    + (IF \E c \in cs : Bit(c, 1) = 1 THEN 2 ELSE 0)

\* the colour an input contributes for (key, tt): its tally colour for the
\* tally types asked masked by the color_mask of the matched config
Contribution(i, key, tt) ==
    BitAnd(TallyGetItem(tallies[i][key], tt),
           ConfigMatches(in_config[i], key, tt).color_mask)

Contributors(ids, key, tt) ==
    {i \in ids : has_tally(i, key) /\ ConfigMatches(in_config[i], key, tt) # NoMatch}

C6_SecondBindIsNoOp ==
    [][\A i \in Inputs :
         (BindStart(i) /\ i \in bound_inputs)
            => /\ UNCHANGED <<bound_inputs, bound_input_tally_keys, pushes, received>>
               /\ UNCHANGED <<holder, waiters>>
               /\ last_op' = [kind |-> "bind", inp |-> i, res |-> "noop",
                              was_bound |-> TRUE]]_vars

\* a second bind_to_input returned as a no-op after the first had bound a tally
C6_Witness ==
    /\ last_op.kind = "bind" /\ last_op.res = "noop"
    /\ last_op.inp \in bound_inputs \cap subscribed
    /\ \E k \in Keys : pushes[<<last_op.inp, k>>] = 1

C8_UnbindNeverRaises ==
    ~(last_op.kind = "unbind" /\ last_op.was_bound /\ last_op.res # "ok")

\* C9: bind_to_tally records the input under the tally key and then calls
\* on_receiver_tally_change once, with rh_tally, txt_tally and lh_tally marked
\* as changed, when the registry already holds the input
C9_BindToTallyRecordsThenNotifies ==
    [][pushes' # pushes =>
         \E i \in Inputs, k \in Keys :
            /\ pushes' = [pushes EXCEPT ![<<i, k>>] = @ + 1]
            /\ received'.inp = i /\ received'.key = k
            /\ received'.props = {"rh_tally", "txt_tally", "lh_tally"}
            /\ i \in received'.ids
            /\ received'.ids = bound_input_tally_keys'[k]]_vars

\* a tally was bound for a second input of the same tally key
C9_Witness ==
    /\ received.inp \in received.ids
    /\ received.ids = Inputs
    /\ pushes[<<received.inp, received.key>>] = 1

C11_LedShowsMergedTally ==
    (Quiescent /\ led.pending = {}) =>
        \A k \in DOMAIN bound_input_tally_keys :
            bound_input_tally_keys[k] # {} =>
                led.color = get_merged_tally(k, config.tally_type)

\* every callback of the Manager has run and no container operation is
\* suspended
MgrQuiet == mgr.pc # "none" /\ mgr.events = << >> /\ mgr.op = NoMgrOp

\* C12: once the object_added events have been processed, every Output held
\* by the Manager is bound to every Input it holds: the Input's id is a key
\* of the Output's bound_inputs and maps to that Input
C12_EveryOutputBoundToEveryInput ==
    MgrQuiet =>
        \A o \in Values(mgr.objects.outputs), i \in Values(mgr.objects.inputs) :
            <<IdOf(i), i>> \in BoundOf(mgr, o)

\* C13: a step taken while the Manager is readonly and not overridden neither
\* writes the config store nor sets config_write_evt
C13_ReadonlyNeverWrites ==
    [][ (mgr'.store # mgr.store \/ (mgr'.evt /\ ~mgr.evt) \/ mgr'.last = "write")
            => ~Manager_readonly(mgr) ]_vars

\* a readonly Manager skipped the write of a change it holds
C13_Witness ==
    /\ mgr.readonly /\ ~mgr.override
    /\ mgr.last = "skip"
    /\ mgr.store # mgr.objects

InOverrideBlock == mgr.pc \in {"block", "waiting"}

\* C14: on a readonly Manager, _readonly is False inside the override block
\* and True outside of it, and a change made inside the block whose writer
\* then awaits config_write_evt leads to the event being set with the change
\* in the config store
C14_OverrideBlockWritesChange ==
    /\ []((mgr.readonly /\ InOverrideBlock) => ~Manager_readonly(mgr))
    /\ []((mgr.readonly /\ mgr.pc = "idle") => Manager_readonly(mgr))
    /\ ((mgr.readonly /\ mgr.pc = "waiting" /\ mgr.changed)
            ~> (mgr.evt /\ mgr.store = mgr.objects))

Wildcard(v) == v \in {None, Broadcast}

\* C15: SingleTallyConfig.matches_screen(other) is true exactly when self's
\* screen_index is None or 0xFFFF, or other normalizes to the wildcard
\* screen, or the two concrete screens are equal
C15_SingleMatchesScreen ==
    (cq.phase = "matches_screen" /\ cq.c.kind = "single") =>
        /\ cq.res <=> \/ Wildcard(cq.c.screen_index)
                      \/ normalize_screen_obj(cq.o) = None
                      \/ cq.c.screen_index = cq.o.screen_index
        /\ (cq.o.kind = "int" /\ cq.o.screen_index = Broadcast) => cq.res
        /\ cq.c.screen_index = None => cq.res
        /\ (cq.o.kind = "single" /\ ~Wildcard(cq.c.screen_index)
              /\ ~Wildcard(cq.o.screen_index)
              /\ cq.c.screen_index # cq.o.screen_index)
            => (~cq.res /\ ~Single_matches_screen(cq.o, cq.c))

\* a config of a concrete screen was asked about the int 0xFFFF
C15_Witness ==
    /\ cq.phase = "matches_screen" /\ cq.c.kind = "single"
    /\ cq.c.screen_index = 1
    /\ cq.o = IntArg(Broadcast)
    /\ cq.res

Alias(v) == IF Wildcard(v) THEN {None, Broadcast} ELSE {v}

\* the configs that differ from x only by None written as 0xFFFF or 0xFFFF
\* as None
Aliases(x) ==
    IF x.kind = "single"
    THEN {[x EXCEPT !.screen_index = scr, !.tally_index = ix] :
            scr \in Alias(x.screen_index), ix \in Alias(x.tally_index)}
    ELSE IF x.kind = "multi"
    THEN {[x EXCEPT !.screen_index = scr] : scr \in Alias(x.screen_index)}
    ELSE {x}

\* C18: writing 0xFFFF for a screen_index or tally_index of None, or None
\* for 0xFFFF, in the config or in the argument changes no result of
\* matches, contains, matches_screen, normalize_screen,
\* normalize_tally_index, tally_key, is_broadcast_screen, is_broadcast_tally
C18_NoneIsBroadcast ==
    \A c2 \in Aliases(cq.c), o2 \in Aliases(cq.o) :
        /\ cq.phase = "matches_screen" => config_matches_screen(c2, o2) = cq.res
        /\ cq.phase = "matches" =>
              /\ config_matches(c2, cq.tallies, o2, cq.tt) = cq.res
              /\ cq.c.kind = "multi" =>
                    \A n \in 1..Len(cq.tallies) : \A t2 \in Aliases(cq.tallies[n]) :
                        config_matches(c2, [cq.tallies EXCEPT ![n] = t2], o2, cq.tt)
                            = cq.res
        /\ cq.phase = "props" => config_props(c2) = cq.props

\* a config written with None and an argument written with 0xFFFF were
\* queried, and each has an alias
C18_Witness ==
    /\ cq.phase \in {"matches", "props", "matches_screen"}
    /\ cq.c.kind = "single"
    /\ cq.c.screen_index = None /\ cq.c.tally_index = Broadcast
    /\ cq.o.kind = "single" /\ cq.o.screen_index = Broadcast
    /\ Cardinality(Aliases(cq.c)) = 4

C21_ConfigRoundTrip ==
    ser.phase = "back" => ser.back = ser.value

\* C22: for every instance x of a registered class, deserialize(x.serialize())
\* is an instance of the same class with the same value for every option
C22_ObjectRoundTrip == ser.phase = "restored" => ser.back = ser.value

\* the required top-level options of the class that values lacks or has as None
MissingRequired(cls, values) ==
    {k \in 1..Len(get_init_options(cls)) :
        /\ get_init_options(cls)[k].required
        /\ \/ get_init_options(cls)[k].name \notin DOMAIN values
           \/ values[get_init_options(cls)[k].name] = NoneV}

OptionErrors == {"RequiredError", "ChoiceError", "InvalidTypeError", "InvalidLengthError"}

\* C25: validating serialized options raises RequiredError when a required
\* option is missing or None, and whatever is raised is one of RequiredError,
\* ChoiceError, InvalidTypeError and InvalidLengthError; otherwise the object
\* is constructed
C25_ValidationOutcomes ==
    ser.phase = "created" =>
        /\ IsRaised(ser.back) => ser.back.error \in OptionErrors
        /\ MissingRequired(ser.value.cls, ser.value.values) # {} =>
              IsRaised(ser.back) /\ ser.back.error = "RequiredError"

\* C23: declaring a final class under a registered namespace raises
\* AssertionError and leaves the registry as it was; every registered class was
\* declared final, under its parent's namespace followed by its own
C23_RegistryKeepsFirstClass ==
    [][/\ \A ns \in DOMAIN reg.map :
             ns \in DOMAIN reg'.map /\ reg'.map[ns] = reg.map[ns]
       /\ reg'.last.final /\ reg'.last.own # << >> /\ reg'.last.ns \in DOMAIN reg.map
             => reg'.last.res = "AssertionError" /\ reg'.map = reg.map
       /\ \A ns \in DOMAIN reg'.map :
             LET c == reg'.classes[reg'.map[ns]]
             IN /\ c.final
                /\ c.own # << >>
                /\ ns = base_namespace(reg'.classes, c.base) \o c.own]_vars

\* a final class was declared under a namespace that another class holds
C23_Witness == reg.last.res = "AssertionError" /\ reg.last.ns \in DOMAIN reg.map

\* the records of the config data whose namespace is not registered
Unregistered == {n \in 1..Len(ser.value) : ser.value[n].val.namespace \notin DOMAIN subclass_map}

\* C24: deserializing a record whose namespace is not registered raises and
\* constructs no object; IOContainer.deserialize adds no entry to objects and
\* emits no object_added for the key of that record
C24_UnknownNamespaceRaises ==
    ser.phase = "loaded" =>
        \A n \in Unregistered :
            /\ IsRaised(BaseIO_deserialize(subclass_map, ser.value[n].val))
            /\ ser.back.raised # "none"
            /\ ser.value[n].key \notin DOMAIN ser.back.objects
            /\ \A e \in 1..Len(ser.back.emitted) :
                  ser.back.emitted[e] # <<"object_added", ser.value[n].key>>

\* a config whose second record has a namespace that is not registered, read
\* after a first record that was loaded
C24_Witness ==
    /\ ser.phase = "loaded"
    /\ Unregistered = {2}
    /\ ser.back.raised = "KeyError"
    /\ DOMAIN ser.back.objects = {ser.value[1].key}

\* the changed property is a tally type the output's config covers for the key
Covered(key, prop) == prop \in AllProps /\ tally_matches(config, key, PropType(prop))

\* C27: a tally update whose changed properties hold no tally type covered by
\* the output's config makes the output neither recompute get_merged_tally
\* nor write a colour
C27_UncoveredUpdateIgnored ==
    bio.phase = "output" =>
        ((\A pr \in bio.last.props : \A k \in Keys : ~Covered(k, pr))
            => bio.last.merges = 0 /\ bio.last.writes = {})

\* C28: an output writes a colour only when the merged colour differs from
\* the last colour it wrote, and an output that is not running writes nothing
C28_WritesOnlyChanges ==
    bio.phase = "output" =>
        /\ \A w \in bio.last.writes : w.color # w.before
        /\ ~bio.running => bio.last.writes = {}

\* the step changes bound_inputs or bound_input_tally_keys
Mutation ==
    bound_inputs' # bound_inputs \/ bound_input_tally_keys' # bound_input_tally_keys

\* C29: bound_inputs and bound_input_tally_keys change only inside a section
\* that holds _input_lock, and one section at a time: while a bind_to_input
\* holds the lock across its gather only its own bind_to_tally calls change
\* them, and any other change is made by a coroutine that takes the free lock
\* (at once, or as the first waiter) for a section that does not suspend
C29_MutationsUnderLock ==
    [][/\ locked =>
             /\ bound_inputs' = bound_inputs
             /\ \A k \in DOMAIN bound_input_tally_keys' :
                   bound_input_tally_keys'[k] \subseteq
                      DictGet(bound_input_tally_keys, k, {}) \cup {holder.inp}
             /\ Mutation => holder'.inp = holder.inp /\ holder'.pend # holder.pend
       /\ ~locked /\ Mutation => waiters = << >> \/ waiters' = Tail(waiters)]_vars

\* a bind_to_input has bound a tally inside its locked section while another
\* coroutine waits for the lock
C29_Witness ==
    /\ locked
    /\ waiters # << >>
    /\ \E k \in DOMAIN bound_input_tally_keys : holder.inp \in bound_input_tally_keys[k]

\* C26: the id of a BaseIO starts as None and changes at most once: set to
\* the value it has it stays, set to another value once it has one raises
\* ValueError and stays, and while it is None it takes the value given
C26_IdSetOnce ==
    [][bio.phase = "object" =>
          /\ bio.id # NoneV => bio'.id = bio.id
          /\ bio'.last.op = "set_id" =>
                /\ bio'.last.value = bio.id =>
                      bio'.id = bio.id /\ bio'.last.res = "none"
                /\ bio'.last.value # bio.id /\ bio.id # NoneV =>
                      bio'.id = bio.id /\ bio'.last.res = "ValueError"
                /\ bio.id = NoneV =>
                      bio'.id = bio'.last.value /\ bio'.last.res = "none"]_vars

\* an id that was set was then set to another value
C26_Witness ==
    /\ bio.phase = "object"
    /\ bio.last.op = "set_id"
    /\ bio.last.res = "ValueError"
    /\ bio.id # NoneV
    /\ bio.last.value \notin {NoneV, bio.id}

\* C30: running is True exactly between a completed open() and the next
\* close(), the device is open exactly then, and close() raises nothing
C30_RunningBetweenOpenAndClose ==
    bio.phase = "object" =>
        /\ bio.running <=> bio.between
        /\ bio.device = "open" <=> bio.between
        /\ bio.last.op = "close" => bio.last.res = "none"

\* C31: once the events of a removal or replacement of an input have been
\* processed, no output of the Manager has the input in bound_inputs
C31_RemovedInputUnbound ==
    MgrQuiet =>
        \A o \in Values(mgr.objects.outputs) :
            \A p \in BoundOf(mgr, o) : p[2] \in Values(mgr.objects.inputs)

\* C32: with two tasks using the override block, every acquire() and every
\* release() returns and every dispatched on_io_update gets state_lock: a
\* task that entered acquire() is back outside the block later, with no
\* update left waiting
C32_OverrideDeadlockFree ==
    \A t \in Tasks :
        (mgr.pc[t] = "acquire") ~> (mgr.pc[t] = "idle" /\ mgr.updates = 0)

\* C37: the tally an opened GpioInput created has the id config.tally_key,
\* and get_tally(config.tally_key) returns it
C37_CreatedTallyHasConfigKey ==
    (bio.phase = "gpio" /\ bio.running) =>
        /\ bio.tally = tally_key(bio.config)
        /\ (bio.last = "get_tally" => bio.got = "tally")

\* C38: on a running GpioInput the colour of the configured tally type is
\* color_mask after a press and OFF after a release
C38_ColorFollowsButton ==
    (bio.phase = "gpio" /\ bio.running /\ bio.last \in {"press", "release"}) =>
        bio.color = IF bio.last = "press" THEN bio.config.color_mask ELSE OFF

\* C33: a bind_to_input that raises leaves bound_inputs and
\* bound_input_tally_keys as they were before the call
C33_FailedBindLeavesRegistry ==
    [][(/\ last_op' # last_op
        /\ last_op'.kind = "bind"
        /\ last_op'.res \notin {"ok", "noop"})
       => /\ bound_inputs' = bound_inputs
          /\ bound_input_tally_keys' = bound_input_tally_keys]_vars

\* C34: _input_lock is always released and no call waits on it forever: a
\* held lock is free again later, and as long as coroutines wait for the lock
\* the first of them gets it, again and again, until nobody waits
C34_InputLockReleased ==
    /\ locked ~> ~locked
    /\ []<><<waiters # << >> /\ waiters' = Tail(waiters)>>_vars \/ <>[](waiters = << >>)

C34_Witness == locked /\ Len(waiters) = MaxWaiters /\ last_op.res = "AttributeError"

\* C35: every key of bound_input_tally_keys matches the Output's config, and
\* every input id stored under a key is in bound_inputs and has announced a
\* tally with that key
C35_RegistryHoldsMatchingBoundTallies ==
    \A key \in DOMAIN bound_input_tally_keys :
        /\ tally_matches(config, key, all_tally)
        /\ \A i \in bound_input_tally_keys[key] :
              /\ has_tally(i, key)
              /\ i \in bound_inputs

\* an announced tally was left out while two inputs are recorded under a key
C35_Witness ==
    /\ last_op.kind = "added" /\ last_op.res = "noop"
    /\ \E key \in DOMAIN bound_input_tally_keys : bound_input_tally_keys[key] = Inputs
    /\ \E i \in Inputs, key \in Keys :
          has_tally(i, key) /\ ~tally_matches(config, key, all_tally)

\* C36: get_merged_tally called with the live Tally of a bound input returns
\* what get_merged_tally returns for the key of that tally
C36_TallyArgumentEqualsKeyArgument ==
    merged.res = "tally" => merged.color = get_merged_tally(merged.key, merged.type)

\* C39: while the Matrix is running its update task runs, every pixel it
\* stores is one of the 25 of the grid and None is not on update_queue
C39_OnlyCloseStopsUpdateLoop ==
    (bio.phase = "matrix" /\ bio.running) =>
        /\ bio.task \in {"created", "waiting"}
        /\ NonePixel \notin DOMAIN bio.colors
        /\ \A n \in DOMAIN bio.queue : bio.queue[n] # NonePixel

TypeOK ==
    /\ bound_inputs \subseteq Inputs
    /\ DOMAIN bound_input_tally_keys \subseteq Keys
    /\ subscribed \subseteq Inputs
    /\ Len(waiters) <= MaxWaiters

====
